---- MODULE Spec2Model ----
(***************************************************************************)
(* Cookie-mode polling core of the Seoul public bike integration:          *)
(* SeoulPublicBikeSiteApi (api.py) and SeoulPublicBikeCoordinator          *)
(* (coordinator.py).  The scheduled poll cycle and the user-invoked        *)
(* refreshes are coroutines of one event loop; each action below runs one  *)
(* coroutine from the completion of the network call it is suspended on to *)
(* its next network call (or to its return).                               *)
(***************************************************************************)
EXTENDS Integers, Sequences, FiniteSets, TLC

VARIABLES
    scn,    \* which behaviours of the upstream site and of the user are explored
    entry,  \* the host's config entry: data/options cookie, credentials, stations
    api,    \* SeoulPublicBikeSiteApi: _cookie, last_meta, last_error
    co,     \* coordinator attributes outside the snapshot
    data,   \* DataUpdateCoordinator.data, the published snapshot
    lock,   \* holder of _refresh_lock
    cyc,    \* the scheduled cycle: position, locals, and the record of its run
    task,   \* the user-invoked refresh coroutines
    hist,   \* history of the run: cookie persisted by a re-login, publications
    call    \* a helper called on its own: its arguments and what it returned

vars == <<scn, entry, api, co, data, lock, cyc, task, hist, call>>

\* ------------------------------------------------------------ Python values
None == "None"

Truthy(s) == s # None /\ s # ""

StrOrEmpty(s) == IF s = None THEN "" ELSE s

\* a stored value compared without .strip()
Unstripped(s) == s

Strip(s) == IF s = " " THEN "" ELSE IF s = " Y" THEN "Y" ELSE s

Upper(s) == IF s = "y" THEN "Y" ELSE IF s = "n" THEN "N" ELSE s

NoStatus == 0

HttpOk == 200

HttpFail == 500

\* --------------------------------------------------------------- endpoints
PATH_LOGIN == "/login.do"
PATH_LOGIN_POST == "/j_spring_security_check"
PATH_RENT_STATUS == "/app/rentCheck/isChkRentStatus.do"
PATH_RENT_STATUS_ALT == "/app/rent/isChkRentStatus.do"
PATH_USER_STATUS == "/app/rent/chkUserSataus.do"
PATH_RECONSENT == "/checkReconsentAjax.do"
PATH_USE_HISTORY == "/app/mybike/getMemberUseHistory.do"
PATH_MOVE_ROUTE == "/app/mybike/getHistoryMoveRoute.do"
PATH_VOUCHER_INFO == "/app/mybike/coupon/validChkVoucherAjax.do"
PATH_LEFT_PAGE == "/myLeftPage.do"
PATH_FAVORITES == "/app/mybike/favoriteStation.do"
PATH_REALTIME_ALL == "/app/station/getStationRealtimeStatus.do"

\* ------------------------------------------------------- the HTTP exchange
\* What the network does with one request: a response (status, body; for
\* the JSON helpers whether the body parses to an object) or no response
\* at all, in which case text is str() of the exception of the transport.
\* body is <<b>> for a body b and <<>> when there is none.
Resp(status, body) == [kind |-> "resp", status |-> status, json |-> "obj", body |-> <<body>>, text |-> None]

RespFail(status) == [kind |-> "resp", status |-> status, json |-> "unparseable", body |-> <<>>, text |-> None]

RespNonJson(status, shape) == [kind |-> "resp", status |-> status, json |-> shape, body |-> <<>>, text |-> None]

NetFail(text) == [kind |-> "net", status |-> NoStatus, json |-> "obj", body |-> <<>>, text |-> text]

\* str() of the ClientResponseError that raise_for_status raises
HttpExcText(status) == ToString(status) \o ", message='error'"

NoMeta == [method |-> None, url |-> None, status |-> NoStatus, error |-> None]

SetCookie(a, cookie) == [a EXCEPT !.cookie = cookie]

RecordMeta(a, method, url, status, error) ==
    [a EXCEPT !.last_meta = [method |-> method, url |-> url, status |-> status,
                             error |-> IF Truthy(error) THEN error ELSE None],
              !.last_error = error]

\* the except-branch shared by the four request helpers
RecordFailure(a, method, url, text) ==
    IF a.last_meta = NoMeta \/ a.last_meta.url # url \/ a.last_meta.status = NoStatus
    THEN RecordMeta(a, method, url, NoStatus, text)
    ELSE a

Returned(a, body) == [api |-> a, raised |-> FALSE, exc |-> None, body |-> body]

Raised(a, text) == [api |-> a, raised |-> TRUE, exc |-> text, body |-> None]

\* the requests a helper called on its own has sent, in order
Logged(a, method, url) ==
    IF scn = "requests" THEN [a EXCEPT !.log = Append(@, [method |-> method, url |-> url])] ELSE a

AnswerText(a, method, url, o) ==
    IF o.kind = "resp"
    THEN LET err == IF o.status >= 400 THEN "http_" \o ToString(o.status) ELSE None
             a1 == RecordMeta(a, method, url, o.status, err)
         IN IF o.status >= 400
            THEN Raised(RecordFailure(a1, method, url, HttpExcText(o.status)), HttpExcText(o.status))
            ELSE Returned(a1, o.body[1])
    ELSE Raised(RecordFailure(a, method, url, o.text), o.text)

RequestText(a, method, url, o) == AnswerText(Logged(a, method, url), method, url, o)

\* the body is returned whatever it parses to
AnswerUnchecked(a, method, url, o) ==
    IF o.kind = "resp" /\ o.status < 400
    THEN Returned(RecordMeta(a, method, url, o.status, None), o.body)
    ELSE AnswerText(a, method, url, o)

AnswerJson(a, method, url, o) ==
    IF o.kind = "resp"
    THEN LET err0 == IF o.status >= 400 THEN "http_" \o ToString(o.status) ELSE None
             err == IF o.json = "unparseable" /\ err0 = None THEN "non_json_response" ELSE err0
             a1 == RecordMeta(a, method, url, o.status, err)
         IN IF o.status >= 400
            THEN Raised(RecordFailure(a1, method, url, HttpExcText(o.status)), HttpExcText(o.status))
            ELSE IF o.json # "obj"
                 THEN Raised(RecordFailure(a1, method, url, "non_json_response"), "non_json_response")
                 ELSE Returned(a1, o.body[1])
    ELSE Raised(RecordFailure(a, method, url, o.text), o.text)

RequestJson(a, method, url, o) == AnswerJson(Logged(a, method, url), method, url, o)

GetText(a, url, o) == RequestText(a, "GET", url, o)

GetJson(a, url, o) == RequestJson(a, "GET", url, o)

PostText(a, url, o) == RequestText(a, "POST", url, o)

PostJson(a, url, o) == RequestJson(a, "POST", url, o)

\* ------------------------------------------------------------ api methods
\* the rent-status payload: a dict with the two flags (None = key absent)
RentPayload(l, m) == [loginYn |-> l, memberYn |-> m, error |-> None]

EmptyDict == RentPayload(None, None)

ErrorDict(text) == [loginYn |-> None, memberYn |-> None, error |-> text]

\* only the primary path is tried
RentStatusPrimaryOnly(a, o1, o2) == GetJson(a, PATH_RENT_STATUS, o1)

fetch_rent_status(a, o1, o2) ==
    LET r1 == GetJson(a, PATH_RENT_STATUS, o1)
    IN IF ~r1.raised THEN r1 ELSE GetJson(r1.api, PATH_RENT_STATUS_ALT, o2)

\* lg: the exchanges of one login() call and the cookie jar it leaves
login(a, lg) ==
    LET r1 == GetText(a, PATH_LOGIN, lg.page)
        r2 == PostText(r1.api, PATH_LOGIN_POST, lg.post)
        r3 == fetch_rent_status(r2.api, lg.rent1, lg.rent2)
    IN IF r1.raised THEN r1
       ELSE IF r2.raised THEN r2
       ELSE IF r3.raised THEN r3
       ELSE IF Upper(Strip(StrOrEmpty(r3.body.loginYn))) # "Y" THEN Raised(r3.api, "login_failed")
       ELSE IF lg.jar = "" THEN Raised(r3.api, "cookie_not_found")
       ELSE Returned(SetCookie(r3.api, lg.jar), lg.jar)

fetch_user_status(a, o) == GetJson(a, PATH_USER_STATUS, o)

fetch_reconsent_status(a, o) == GetJson(a, PATH_RECONSENT, o)

fetch_move_route(a, o) == PostJson(a, PATH_MOVE_ROUTE, o)

\* fetch_use_history_html() without a period: the base page
fetch_use_history_html(a, o) == GetText(a, PATH_USE_HISTORY, o)

\* fetch_use_history_html(period, base_html): the POST of the date range; when
\* it raises, base_html if it is non-empty, else a GET of the base page
fetch_use_history_period(a, base_html, o1, o2) ==
    LET r1 == PostText(a, PATH_USE_HISTORY, o1)
    IN IF ~r1.raised THEN r1
       ELSE IF ~base_html.empty THEN Returned(r1.api, base_html)
       ELSE GetText(r1.api, PATH_USE_HISTORY, o2)

fetch_left_page_html(a, o) == GetText(a, PATH_LEFT_PAGE, o)

fetch_favorites_html(a, o) == GetText(a, PATH_FAVORITES, o)

fetch_station_realtime_all(a, o) == PostJson(a, PATH_REALTIME_ALL, o)

\* fetch_voucher_info is called by the coordinator (lines 834 and 1211) but
\* SeoulPublicBikeSiteApi defines no such method: the attribute lookup raises
\* AttributeError before any request is made.
fetch_voucher_info(a) == Raised(a, "object has no attribute 'fetch_voucher_info'")

\* no request is made: the method is missing
NoMethod == [kind |-> "missing", status |-> NoStatus, json |-> "obj", body |-> <<>>, text |-> None]

\* The endpoint the two callers expect behind fetch_voucher_info, as the
\* specification describes it: a dedicated voucher-info endpoint answering a
\* JSON object with the ticket expiry, the registration time and the time of
\* the last login.  Used where a property is about the values it returns.
voucher_info_endpoint(a, o) ==
    IF o = NoMethod THEN fetch_voucher_info(a) ELSE PostJson(a, PATH_VOUCHER_INFO, o)

\* ------------------------------------------------- coordinator: pure helpers
\* a missing loginYn read as a logged-out session
StrictLoginOk(status) ==
    IF Upper(Strip(StrOrEmpty(status.loginYn))) # "Y" THEN "False"
    ELSE IF Truthy(status.memberYn) /\ Upper(Strip(status.memberYn)) # "Y" THEN "False"
    ELSE "True"

_status_login_ok(status) ==
    LET lg == Upper(Strip(StrOrEmpty(status.loginYn)))
        member == Upper(Strip(StrOrEmpty(status.memberYn)))
    IN IF status = EmptyDict THEN "None"
       ELSE IF lg = "" THEN "None"
       ELSE IF lg # "Y" THEN "False"
       ELSE IF member # "" /\ member # "Y" THEN "False"
       ELSE "True"

\* An HTML page is described by the markers the classifier looks for and by
\* what the extractors find in it.
Page(marks, rows, kcal, start, end, favs, expiry) ==
    [empty |-> FALSE, marks |-> marks, rows |-> rows, kcal |-> kcal,
     start |-> start, end |-> end, favs |-> favs, expiry |-> expiry]

EmptyPage == [empty |-> TRUE, marks |-> {}, rows |-> <<>>, kcal |-> None,
              start |-> None, end |-> None, favs |-> <<>>, expiry |-> None]

\* a classifier that looks at the login form alone
LoginByFormAlone(html) ==
    IF html.empty THEN TRUE
    ELSE "password" \in html.marks /\ ("spring" \in html.marks \/ "form" \in html.marks)

\* lines 243-254
_looks_like_login(html) ==
    IF html.empty THEN TRUE
    ELSE IF "data" \in html.marks THEN FALSE
    ELSE IF "logout" \in html.marks THEN FALSE
    ELSE \/ ("spring" \in html.marks /\ "password" \in html.marks)
         \/ ("form" \in html.marks /\ "password" \in html.marks)

\* a trip row; history_id is the sixth cell when the table has one
NoTrip == [bike |-> None, history_id |-> None]

NoRoute == [val |-> None, error |-> None]

NoPayload == [present |-> FALSE, period_start |-> None, period_end |-> None, kcal |-> None,
              history |-> <<>>, last |-> NoTrip, move_route |-> NoRoute]

_parse_use_history(html) ==
    [present |-> TRUE, period_start |-> html.start, period_end |-> html.end, kcal |-> html.kcal,
     history |-> html.rows, last |-> IF html.rows # <<>> THEN Head(html.rows) ELSE NoTrip,
     move_route |-> NoRoute]

\* the latest trip is kept, nothing is taken over from the previous snapshot
MergeWithoutPrevious(payload, prev) ==
    IF payload.history # <<>>
    THEN [payload EXCEPT !.history = <<Head(payload.history)>>, !.last = Head(payload.history)]
    ELSE [payload EXCEPT !.history = <<>>, !.last = prev.last]

\* every trip of the page is kept
MergeKeepingAll(payload, prev) ==
    IF payload.history # <<>> THEN payload
    ELSE [payload EXCEPT !.history = prev.history, !.last = prev.last]

_merge_latest_history(payload, prev) ==
    LET p1 == IF payload.history # <<>>
              THEN [payload EXCEPT !.history = <<Head(payload.history)>>, !.last = Head(payload.history)]
              ELSE IF prev.history # <<>>
                   THEN [payload EXCEPT !.history = <<Head(prev.history)>>, !.last = Head(prev.history)]
                   ELSE [payload EXCEPT !.history = <<>>, !.last = prev.last]
        p2 == IF ~Truthy(p1.kcal) /\ Truthy(prev.kcal) THEN [p1 EXCEPT !.kcal = prev.kcal] ELSE p1
        p3 == IF ~Truthy(p2.period_start) /\ Truthy(prev.period_start)
              THEN [p2 EXCEPT !.period_start = prev.period_start] ELSE p2
    IN IF ~Truthy(p3.period_end) /\ Truthy(prev.period_end)
       THEN [p3 EXCEPT !.period_end = prev.period_end] ELSE p3

_history_range == [start |-> "today-1m", end |-> "today"]

\* lines 1162-1166 of the cycle, 892-896 of async_refresh_use_history
WithDefaultRange(payload) ==
    IF ~Truthy(payload.period_start) \/ ~Truthy(payload.period_end)
    THEN [payload EXCEPT !.period_start = _history_range.start, !.period_end = _history_range.end]
    ELSE payload

_parse_datetime_value(raw) ==
    IF ~Truthy(raw) THEN None
    ELSE IF raw = "null" \/ raw = "n/a" THEN None
    ELSE raw \o "T00:00:00+00:00"

VoucherPayload(e, r, l) == [voucherEndDttm |-> e, regDttm |-> r, lastLoginDttm |-> l, error |-> None]

VoucherError(text) == [voucherEndDttm |-> None, regDttm |-> None, lastLoginDttm |-> None, error |-> text]

NoMyPage == [voucher_end_dttm |-> None, reg_dttm |-> None, last_login_dttm |-> None, error |-> None]

_extract_voucher_info(payload) ==
    [voucher_end_dttm |-> _parse_datetime_value(payload.voucherEndDttm),
     reg_dttm |-> _parse_datetime_value(payload.regDttm),
     last_login_dttm |-> _parse_datetime_value(payload.lastLoginDttm),
     error |-> None]

RECURSIVE _extract_voucher_end_from_realtime(_)
_extract_voucher_end_from_realtime(realtime_list) ==
    IF realtime_list = <<>> THEN None
    ELSE LET parsed == _parse_datetime_value(Head(realtime_list).voucherEndDttm)
         IN IF Truthy(parsed) THEN parsed
            ELSE _extract_voucher_end_from_realtime(Tail(realtime_list))

_parse_ticket_expiry(left_html) ==
    IF left_html.empty THEN None
    ELSE IF Truthy(left_html.expiry) THEN left_html.expiry \o "T00:00:00+00:00" ELSE None

\* ----------------------------------------------------- stations and nearby
DEFAULT_RADIUS_M == 500

DEFAULT_MAX_RESULTS == 5

DEFAULT_MIN_BIKES == 1

\* a counter of a status payload: <<n>> when it holds the integer n, <<>> when
\* the key is absent or its value is not numeric
_to_int(v, default) == IF v = <<>> THEN default ELSE v[1]

Max(a, b) == IF a >= b THEN a ELSE b

Abs(a) == IF a >= 0 THEN a ELSE 0 - a

\* coordinates are grid units, 0 = unknown (_to_float(...) or 0.0); distances
\* are metres along the grid
haversine_m(lat1, lon1, lat2, lon2) == 100 * (Abs(lat2 - lat1) + Abs(lon2 - lon1))

Status(sid, sno, lat, lon, tot, gen, teen, vend) ==
    [stationId |-> sid, stationNo |-> sno, stationLatitude |-> lat, stationLongitude |-> lon,
     parkingBikeTotCnt |-> tot, parkingBikeTotCntGeneral |-> gen, parkingBikeTotCntTeen |-> teen,
     parkingQRBikeCnt |-> <<>>, parkingELECBikeCnt |-> <<>>, parkingBikeTotCntRepair |-> <<>>,
     bikes_total |-> <<>>, bikes_general |-> <<>>, bikes_sprout |-> <<>>, bikes_repair |-> <<>>,
     voucherEndDttm |-> vend]

NoStation == [station_id |-> None, station_no |-> None, lat |-> 0, lon |-> 0, bikes_total |-> 0,
              bikes_general |-> 0, bikes_sprout |-> 0, bikes_repair |-> 0]

FirstTruthy(a, b, c) == IF Truthy(a) THEN a ELSE IF Truthy(b) THEN b ELSE IF Truthy(c) THEN c ELSE ""

\* "if v <= 0: v = other"
IfNotPositive(v, other) == IF v <= 0 THEN other ELSE v

\* lines 648-651: bikes_general before the total is known
GeneralBikes(status) ==
    IfNotPositive(_to_int(status.parkingBikeTotCntGeneral, 0), _to_int(status.parkingBikeTotCnt, 0))
    + Max(0, _to_int(status.parkingQRBikeCnt, 0))

\* lines 652-653
SproutBikes(status) ==
    IF _to_int(status.parkingBikeTotCntTeen, 0) <= 0 /\ _to_int(status.parkingELECBikeCnt, 0) > 0
    THEN _to_int(status.parkingELECBikeCnt, 0)
    ELSE _to_int(status.parkingBikeTotCntTeen, 0)

\* lines 655-658
TotalBikes(status, general, sprout) ==
    IfNotPositive(IfNotPositive(_to_int(status.parkingBikeTotCnt, 0), _to_int(status.bikes_total, 0)),
                  Max(0, general + sprout))

\* lines 659-676
StationRecord(status, sid, station_no, general, sprout, total) ==
    IF sid = "" THEN NoStation
    ELSE [station_id |-> sid, station_no |-> station_no,
          lat |-> status.stationLatitude, lon |-> status.stationLongitude,
          bikes_total |-> total,
          bikes_general |-> IfNotPositive(general, _to_int(status.bikes_general, total)),
          bikes_sprout |-> IfNotPositive(sprout, _to_int(status.bikes_sprout, 0)),
          bikes_repair |-> IfNotPositive(_to_int(status.parkingBikeTotCntRepair, 0),
                                         _to_int(status.bikes_repair, 0))]

StationWithCounts(status, sid, station_no, general, sprout) ==
    StationRecord(status, sid, station_no, general, sprout, TotalBikes(status, general, sprout))

_station_from_status(status, fallback_station_id, fallback_station_no) ==
    StationWithCounts(status,
                      FirstTruthy(status.stationId, fallback_station_id, fallback_station_no),
                      FirstTruthy(status.stationNo, fallback_station_no, None),
                      GeneralBikes(status), SproutBikes(status))

\* a sort by distance alone
KeyByDistance(x, y) == x.distance_m <= y.distance_m

\* the key of candidates.sort: (-bikes_total, distance_m)
KeyLeq(x, y) ==
    \/ x.bikes_total > y.bikes_total
    \/ x.bikes_total = y.bikes_total /\ x.distance_m <= y.distance_m

RECURSIVE InsertSorted(_, _)
InsertSorted(x, sorted) ==
    IF sorted = <<>> THEN <<x>>
    ELSE IF KeyLeq(Head(sorted), x) THEN <<Head(sorted)>> \o InsertSorted(x, Tail(sorted))
    ELSE <<x>> \o sorted

RECURSIVE SortCandidates(_)
SortCandidates(cands) ==
    IF cands = <<>> THEN <<>>
    ELSE InsertSorted(cands[Len(cands)], SortCandidates(SubSeq(cands, 1, Len(cands) - 1)))

RECURSIVE SumBikes(_)
SumBikes(cands) == IF cands = <<>> THEN 0 ELSE Head(cands).bikes_total + SumBikes(Tail(cands))

\* the filter loop shared by _compute_nearby and _compute_nearby_from_statuses
Candidate(st, dist, radius, min_bikes) ==
    IF st.station_id = None \/ st.lat = 0 \/ st.lon = 0 THEN <<>>
    ELSE IF dist > radius THEN <<>>
    ELSE IF st.bikes_total < min_bikes THEN <<>>
    ELSE <<[station_id |-> st.station_id, station_no |-> st.station_no,
            bikes_total |-> st.bikes_total, distance_m |-> dist]>>

RECURSIVE Candidates(_, _)
Candidates(c, stations) ==
    IF stations = <<>> THEN <<>>
    ELSE Candidate(Head(stations),
                   haversine_m(c.center_lat, c.center_lon, Head(stations).lat, Head(stations).lon),
                   Max(1, IF c.radius_m = 0 THEN DEFAULT_RADIUS_M ELSE c.radius_m),
                   Max(0, c.min_bikes))
         \o Candidates(c, Tail(stations))

\* hass.config.latitude / longitude
HomeLat == 10

HomeLon == 10

\* no location entity is configured: the centre is the host's home
_compute_center(c) ==
    [c EXCEPT !.center_lat = HomeLat, !.center_lon = HomeLon, !.nearby_status = "ok"]

\* a list that is never cut
Untruncated(cands, max_results) == cands

\* candidates[: max_results] when max_results > 0
Truncated(cands, max_results) ==
    IF max_results > 0 /\ Len(cands) > max_results THEN SubSeq(cands, 1, max_results) ELSE cands

WithNearby(c, cands, kept) ==
    [c EXCEPT !.nearby = kept,
              !.nearby_total_bikes = SumBikes(cands),
              !.nearby_recommended_bikes = SumBikes(kept)]

RankedFrom(c, cands) == WithNearby(c, cands, Truncated(cands, c.max_results))

RankedAt(c, stations) == RankedFrom(c, SortCandidates(Candidates(c, stations)))

Ranked(c, stations) == RankedAt(_compute_center(c), stations)

\* stations_by_id is an insertion-ordered dict: the sequence of its items
\* [key, st]
Values(stations) == [i \in 1..Len(stations) |-> stations[i].st]

_compute_nearby(c) == Ranked(c, Values(c.stations_by_id))

_compute_nearby_from_statuses(c, statuses) ==
    Ranked(c, [i \in 1..Len(statuses) |-> _station_from_status(statuses[i], None, None)])

\* realtime_by_id.get(sid.upper()) or realtime_by_no.get(sno): the last item
\* of the list with that id wins, else the last item with that number
FindStatus(realtime_list, sid, sno) ==
    LET byid == {i \in 1..Len(realtime_list) : Truthy(sid) /\ realtime_list[i].stationId = sid}
        byno == {i \in 1..Len(realtime_list) : Truthy(sno) /\ realtime_list[i].stationNo = sno}
        last(S) == CHOOSE i \in S : \A j \in S : j <= i
    IN IF byid # {} THEN <<realtime_list[last(byid)]>>
       ELSE IF byno # {} THEN <<realtime_list[last(byno)]>>
       ELSE <<>>

HasStation(stations, key) == \E i \in 1..Len(stations) : stations[i].key = key

GetStation(stations, key) == stations[CHOOSE i \in 1..Len(stations) : stations[i].key = key].st

\* d[key] = st
PutStation(stations, key, st) ==
    IF HasStation(stations, key)
    THEN [i \in 1..Len(stations) |-> IF stations[i].key = key THEN [key |-> key, st |-> st] ELSE stations[i]]
    ELSE Append(stations, [key |-> key, st |-> st])

\* an identifier missing from the realtime list has no Station
NoFallback(prev, station_id, station_no, raw_id) == NoStation

_fallback_station(prev, station_id, station_no, raw_id) ==
    LET byno == {i \in 1..Len(prev) : prev[i].st.station_no = station_no}
        byraw == {i \in 1..Len(prev) : prev[i].st.station_id = raw_id \/ prev[i].st.station_no = raw_id}
        first(S) == CHOOSE i \in S : \A j \in S : i <= j
    IN IF prev = <<>> THEN NoStation
       ELSE IF Truthy(station_id) /\ HasStation(prev, station_id) THEN GetStation(prev, station_id)
       ELSE IF Truthy(station_no) /\ byno # {} THEN prev[first(byno)].st
       ELSE IF Truthy(raw_id) /\ byraw # {} THEN prev[first(byraw)].st
       ELSE NoStation

\* a configured identifier is a station id ("ST-n") or a station number
IsStationId(raw) == raw \in {"ST-1", "ST-2"}

\* the Station of an identifier in the realtime list, NoStation when absent
StationOfFound(found, station_id, station_no) ==
    IF found = <<>> THEN NoStation ELSE _station_from_status(found[1], station_id, station_no)

StationFor(realtime_list, station_id, station_no) ==
    StationOfFound(FindStatus(realtime_list, station_id, station_no), station_id, station_no)

Resolved(acc, st, fallback) ==
    IF st # NoStation THEN PutStation(acc, st.station_id, st)
    ELSE IF fallback # NoStation THEN PutStation(acc, fallback.station_id, fallback)
    ELSE acc

ResolveOne(raw_id, station_id, station_no, realtime_list, prev, acc) ==
    Resolved(acc, StationFor(realtime_list, station_id, station_no),
             _fallback_station(prev, station_id, station_no, raw_id))

\* lines 1266-1287: resolve every configured identifier against the realtime
\* list, else against the stations of the previous cycle
RECURSIVE ResolveStations(_, _, _, _)
ResolveStations(ids, realtime_list, prev, acc) ==
    IF ids = <<>> THEN acc
    ELSE ResolveStations(Tail(ids), realtime_list, prev,
                         ResolveOne(Head(ids),
                                    IF IsStationId(Head(ids)) THEN Head(ids) ELSE None,
                                    IF IsStationId(Head(ids)) THEN None ELSE Head(ids),
                                    realtime_list, prev, acc))

\* ------------------------------------------------------------- favorites
Favorite(sid, sno, normal, sprout) ==
    [station_id |-> sid, station_no |-> sno, normal |-> normal, sprout |-> sprout]

FavoriteEntry(f, st, lat0, lon0) ==
    IF st # NoStation
    THEN [station_id |-> f.station_id, station_no |-> f.station_no,
          normal |-> <<st.bikes_general>>, sprout |-> <<st.bikes_sprout>>,
          lat |-> <<st.lat>>, lon |-> <<st.lon>>]
    ELSE [station_id |-> f.station_id, station_no |-> f.station_no,
          normal |-> f.normal, sprout |-> f.sprout, lat |-> lat0, lon |-> lon0]

\* one favorite_status entry (lines 1242-1264 and 953-977): the counts of the
\* favorites page unless the realtime list has the station
FavoriteStatus(f, realtime_list, lat0, lon0) ==
    FavoriteEntry(f, StationFor(realtime_list, f.station_id, f.station_no), lat0, lon0)

\* favorite_status[sid] = entry, on an insertion-ordered dict
PutStatus(fs, e) ==
    IF \E i \in 1..Len(fs) : fs[i].station_id = e.station_id
    THEN [i \in 1..Len(fs) |-> IF fs[i].station_id = e.station_id THEN e ELSE fs[i]]
    ELSE Append(fs, e)

RECURSIVE AllFavoriteStatus(_, _, _)
AllFavoriteStatus(favorites, realtime_list, acc) ==
    IF favorites = <<>> THEN acc
    ELSE AllFavoriteStatus(Tail(favorites), realtime_list,
                           PutStatus(acc, FavoriteStatus(Head(favorites), realtime_list, <<>>, <<>>)))

\* ------------------------------------------------------------ the snapshot
Dict(val) == [val |-> val, error |-> None]

\* an auxiliary failure swallowed without its text
DroppedError(text) == Dict(None)

ErrDict(text) == [val |-> None, error |-> text]

NoDict == Dict(None)

LOGIN_PAGE_ERROR == "login page returned (cookie expired / permission / session limit)"

LastRequest(c) == [url |-> c.last_request_url, http_status |-> c.last_http_status, error |-> c.last_error]

NoLastRequest == [url |-> None, http_status |-> NoStatus, error |-> None]

\* self.data before the first publication (None, read as {})
NoData ==
    [error |-> None, periods |-> NoPayload, ticket_expiry |-> None, my_page |-> NoMyPage,
     favorites |-> <<>>, favorite_status |-> <<>>, rent_status |-> EmptyDict,
     user_status |-> NoDict, reconsent_status |-> NoDict, validation_status |-> None,
     last_request |-> NoLastRequest, nearby_count |-> <<>>, station_count |-> <<>>]

_sync_last_request_meta(c, a) ==
    [c EXCEPT !.last_http_status = a.last_meta.status,
              !.last_request_url = a.last_meta.url,
              !.last_error = IF Truthy(a.last_error) /\ ~Truthy(c.last_error) THEN a.last_error ELSE @]

\* the degraded snapshot of lines 1102-1119 and 1138-1155
DegradedSnapshot(c, cy) ==
    [NoData EXCEPT !.error = LOGIN_PAGE_ERROR,
                   !.rent_status = cy.rent_status,
                   !.user_status = cy.user_status,
                   !.reconsent_status = cy.reconsent_status,
                   !.validation_status = c.validation_status,
                   !.last_request = LastRequest(c)]

\* ------------------------------------------------------------------ state
RECURSIVE Dedupe(_, _)
Dedupe(items, acc) ==
    IF items = <<>> THEN acc
    ELSE IF \E i \in 1..Len(acc) : acc[i] = Head(items) THEN Dedupe(Tail(items), acc)
    ELSE Dedupe(Tail(items), Append(acc, Head(items)))

\* the stored list of identifiers, blanks dropped, duplicates removed in order
_parse_station_list(raw) == Dedupe(SelectSeq(raw, LAMBDA x : Strip(x) # ""), <<>>)

\* the entry left as it was
EntryNotUpdated(e, new_cookie) == e

\* hass.config_entries.async_update_entry(entry, data={**entry.data,
\* CONF_COOKIE: new_cookie})
async_update_entry(e, new_cookie) == [e EXCEPT !.data_cookie = new_cookie]

\* entry.options.get(CONF_COOKIE) or entry.data.get(CONF_COOKIE) or ""
RawCookie(e) ==
    IF Truthy(e.options_cookie) THEN e.options_cookie
    ELSE IF Truthy(e.data_cookie) THEN e.data_cookie ELSE ""

\* SeoulPublicBikeSiteApi.__init__
NewApi(cookie) == [cookie |-> cookie, last_meta |-> NoMeta, last_error |-> None, log |-> <<>>]

\* SeoulPublicBikeCoordinator.__init__ (center 0 stands for None)
NewCoordinator ==
    [last_error |-> None, last_http_status |-> NoStatus, last_request_url |-> None,
     validation_status |-> None, radius_m |-> DEFAULT_RADIUS_M, max_results |-> DEFAULT_MAX_RESULTS,
     min_bikes |-> DEFAULT_MIN_BIKES, center_lat |-> 0, center_lon |-> 0, nearby_status |-> "unknown",
     nearby |-> <<>>, nearby_total_bikes |-> 0, nearby_recommended_bikes |-> 0,
     station_ids |-> <<>>, stations_by_id |-> <<>>]

\* The locals of _async_update_data, and below them the record of the run
\* that the properties read: the fetches issued (trace), the first session
\* check, the result of login(), how the run ended, what it returned, the
\* text of the exception that ended it and the guarded fetches that raised.
IdleCycle ==
    [pc |-> "idle", login_ok |-> "None", username |-> "", password |-> "",
     rent_status |-> EmptyDict, user_status |-> NoDict, reconsent_status |-> NoDict,
     periods |-> NoPayload, favorites |-> <<>>, realtime_list |-> <<>>,
     prev_my_page |-> NoMyPage, voucher_payload |-> VoucherPayload(None, None, None),
     voucher_info |-> NoMyPage, has_station_ids |-> FALSE,
     trace |-> <<>>, first_ok |-> "unset", first_rent |-> EmptyDict, login_res |-> "none", new_cookie |-> None,
     rows |-> <<>>, left_expiry |-> None,
     outcome |-> "none", exc |-> None, ret |-> NoData, failed |-> <<>>]

Ended(c, outcome, snap, text) ==
    [IdleCycle EXCEPT !.trace = c.trace, !.first_ok = c.first_ok, !.first_rent = c.first_rent, !.login_res = c.login_res,
                      !.new_cookie = c.new_cookie, !.username = c.username, !.password = c.password,
                      !.outcome = outcome, !.ret = snap, !.exc = text, !.failed = c.failed,
                      !.rows = c.rows, !.left_expiry = c.left_expiry,
                      !.voucher_payload = c.voucher_payload, !.realtime_list = c.realtime_list]

Did(c, what) == [c EXCEPT !.trace = Append(@, what)]

\* ------------------------------------------------- the scheduled poll cycle
\* the number of poll cycles and of button presses a behaviour contains
MaxCycles == 2

MaxInvokes == 1

\* the refreshes invoked where two of them meet
MaxRefreshes == 2

InvokeBound == IF scn \in {"serial", "release"} THEN MaxRefreshes ELSE MaxInvokes

\* the behaviours of the usage history span one cycle more; where the exits
\* of the refreshes are followed, one cycle less
CycleBound ==
    IF scn = "history" THEN MaxCycles + 1
    ELSE IF scn = "release" THEN MaxCycles - 1
    ELSE MaxCycles

\* a guarded fetch that raised, with the text of its exception
Failure(c, what, text) == [c EXCEPT !.failed = Append(@, [fetch |-> what, text |-> text])]

\* the coroutine suspends on its next fetch
CycleGoto(c, a, c_o) ==
    /\ cyc' = c
    /\ api' = a
    /\ co' = c_o
    /\ UNCHANGED <<call, scn, entry, data, lock, task, hist>>

\* the latest trip a publication has shown so far
LatestTrip(snap, trip) == IF snap.periods.history # <<>> THEN Head(snap.periods.history) ELSE trip

\* _async_update_data returns snap: DataUpdateCoordinator assigns it to data
CycleReturn(c, a, c_o, snap, outcome) ==
    /\ cyc' = Ended(c, outcome, snap, None)
    /\ api' = a
    /\ co' = c_o
    /\ data' = snap
    /\ hist' = [hist EXCEPT !.ready = @ \/ snap.error = None, !.last_pub = "cycle",
                            !.trip = LatestTrip(snap, @)]
    /\ UNCHANGED <<call, scn, entry, lock, task>>

\* lines 1323-1327: the cycle ends with UpdateFailed, data keeps its value
CycleFail(c, a, c_o, text) ==
    /\ cyc' = Ended(c, "failed", NoData, text)
    /\ api' = a
    /\ co' = _sync_last_request_meta([c_o EXCEPT !.last_error = text, !.validation_status = "error"], a)
    /\ UNCHANGED <<call, scn, entry, data, lock, task, hist>>

\* lines 1098-1119 and 1134-1155
CycleDegraded(c, a, c_o, outcome) ==
    LET c1 == _sync_last_request_meta(
                  [c_o EXCEPT !.validation_status = "login_page", !.last_error = "login_page"], a)
    IN CycleReturn(c, a, c1, DegradedSnapshot(c1, c), outcome)

\* lines 1039-1077, up to the first fetch
CycleStart ==
    /\ cyc.pc = "idle"
    /\ hist.cycles < CycleBound
    /\ cyc' = [IdleCycle EXCEPT !.pc = "rent_status",
                                !.username = Strip(StrOrEmpty(entry.username)),
                                !.password = Strip(StrOrEmpty(entry.password)),
                                !.has_station_ids = _parse_station_list(entry.station_ids) # <<>>]
    /\ co' = [co EXCEPT !.last_error = None, !.validation_status = "ok",
                        !.station_ids = _parse_station_list(entry.station_ids),
                        !.radius_m = entry.radius_m, !.max_results = entry.max_results,
                        !.min_bikes = entry.min_bikes]
    /\ api' = SetCookie(api, RawCookie(entry))
    /\ hist' = [hist EXCEPT !.cycles = @ + 1]
    /\ UNCHANGED <<call, scn, entry, data, lock, task>>

\* the session stage never short-circuits the cycle
ProceedAfterSession(c, a, c_o) == CycleGoto([c EXCEPT !.pc = "user_status"], a, c_o)

\* lines 1098-1121: after the session stage
CycleAfterSession(c, a, c_o) ==
    IF c.login_ok = "False"
    THEN CycleDegraded(c, a, c_o, "degraded_session")
    ELSE CycleGoto([c EXCEPT !.pc = "user_status"], a, c_o)

\* --------------------------------------------- what the upstream site does
\* Each specification explores one family of behaviours of the site and of
\* the user (scn); the code that reacts to them is the same in all of them.
OkRent == RentPayload("Y", "Y")

T1 == [bike |-> "b1", history_id |-> "h1"]

T2 == [bike |-> "b2", history_id |-> None]

HistoryPage(rows, kcal) == Page({"data"}, rows, kcal, None, None, <<>>, None)

LoginPage == Page({"spring", "password", "form"}, <<>>, None, None, None, <<>>, None)

F1 == Favorite("ST-1", "101", <<3>>, <<0>>)

F2 == Favorite("ST-2", "102", <<>>, <<>>)

FavoritesPage(favs) == Page({"data"}, <<>>, None, None, None, favs, None)

LeftPage(expiry) == Page({"logout"}, <<>>, None, None, None, <<>>, expiry)

S1(gen, vend) == Status("ST-1", "101", 11, 10, <<>>, <<gen>>, <<1>>, vend)

S2(gen) == Status("ST-2", "102", 13, 12, <<gen>>, <<>>, <<>>, None)

\* an item of the realtime list without stationId
S2ByNumber(gen) == Status(None, "102", 13, 12, <<gen>>, <<>>, <<>>, None)

RentPrimary ==
    CASE scn = "session" ->
           {Resp(HttpOk, p) : p \in {OkRent, RentPayload("y", None), RentPayload("Y", "N"),
                                     RentPayload("N", None), RentPayload(None, "Y"), EmptyDict}}
           \cup {RespFail(HttpFail), NetFail("")}
      [] scn = "ensure" -> {Resp(HttpOk, OkRent), Resp(HttpOk, RentPayload("N", None)), Resp(HttpOk, EmptyDict)}
      [] scn = "history" -> {Resp(HttpOk, OkRent), Resp(HttpOk, RentPayload("N", None))}
      [] scn = "release" -> {Resp(HttpOk, OkRent), Resp(HttpOk, RentPayload("N", None))}
      [] OTHER -> {Resp(HttpOk, OkRent)}

RentAlt ==
    IF scn = "session"
    THEN {Resp(HttpOk, RentPayload("N", "Y")), NetFail("timeout")}
    ELSE {Resp(HttpOk, OkRent)}

LoginExchanges ==
    IF scn = "session"
    THEN [page : {Resp(HttpOk, LoginPage), NetFail("")},
          post : {Resp(HttpOk, EmptyPage), RespFail(HttpFail)},
          rent1 : {Resp(HttpOk, OkRent), Resp(HttpOk, RentPayload("Y", "N")),
                   Resp(HttpOk, RentPayload("N", None)), NetFail("")},
          rent2 : {Resp(HttpOk, OkRent)},
          jar : {"", "JSESSIONID=L1", "JSESSIONID=L2"}]
    ELSE [page : {Resp(HttpOk, LoginPage)},
          post : {Resp(HttpOk, EmptyPage), RespFail(HttpFail)},
          rent1 : {Resp(HttpOk, OkRent)},
          rent2 : {Resp(HttpOk, OkRent)},
          jar : {"JSESSIONID=L1"}]

UserOutcomes ==
    IF scn = "aux"
    THEN {Resp(HttpOk, Dict("user1")), RespFail(HttpFail), NetFail("timeout"), RespNonJson(HttpOk, "list")}
    ELSE {Resp(HttpOk, Dict("user1"))}

ReconsentOutcomes ==
    IF scn = "aux" THEN {Resp(HttpOk, Dict("reconsent1")), NetFail(""), RespNonJson(HttpOk, "unparseable")}
    ELSE {Resp(HttpOk, Dict("reconsent1"))}

HistoryOutcomes ==
    CASE scn = "aux" -> {Resp(HttpOk, HistoryPage(<<T1>>, "kcal1")), RespFail(HttpFail), NetFail("timeout")}
      [] scn = "stale" -> {Resp(HttpOk, HistoryPage(<<T1>>, "kcal1")), RespFail(HttpFail), NetFail("")}
      [] scn = "session" -> {Resp(HttpOk, HistoryPage(<<T1>>, "kcal1")), Resp(HttpOk, LoginPage)}
      [] scn = "history" -> {Resp(HttpOk, HistoryPage(<<T1>>, "kcal1")), Resp(HttpOk, HistoryPage(<<T2, T1>>, None)),
                             Resp(HttpOk, HistoryPage(<<>>, None)), Resp(HttpOk, HistoryPage(<<>>, "kcal2")),
                             Resp(HttpOk, LoginPage), NetFail("timeout")}
      [] scn = "trips" -> {Resp(HttpOk, HistoryPage(<<T1>>, "kcal1")), Resp(HttpOk, HistoryPage(<<T2, T1>>, None)),
                           Resp(HttpOk, HistoryPage(<<>>, None))}
      [] scn = "release" -> {Resp(HttpOk, HistoryPage(<<T1>>, "kcal1")), NetFail("timeout")}
      [] OTHER -> {Resp(HttpOk, HistoryPage(<<T1>>, "kcal1"))}

HistoryPostOutcomes ==
    CASE scn = "stale" -> {Resp(HttpOk, HistoryPage(<<T2>>, "kcal2")), Resp(HttpOk, LoginPage), RespFail(HttpFail)}
      [] scn = "trips" -> {Resp(HttpOk, HistoryPage(<<T2, T1>>, "kcal2")), Resp(HttpOk, HistoryPage(<<>>, None)),
                           RespFail(HttpFail)}
      [] scn = "release" -> {Resp(HttpOk, HistoryPage(<<T1>>, "kcal2")), Resp(HttpOk, LoginPage), RespFail(HttpFail)}
      [] OTHER -> {Resp(HttpOk, HistoryPage(<<T1>>, "kcal2"))}

MoveRouteOutcomes ==
    IF scn = "aux" THEN {Resp(HttpOk, Dict("route1")), NetFail("timeout")}
    ELSE {Resp(HttpOk, Dict("route1"))}

FavoritesOutcomes ==
    CASE scn = "aux" -> {Resp(HttpOk, FavoritesPage(<<F1>>)), NetFail("")}
      [] scn = "conc" -> {Resp(HttpOk, FavoritesPage(<<F1, F2>>)), Resp(HttpOk, FavoritesPage(<<F2>>))}
      [] OTHER -> {Resp(HttpOk, FavoritesPage(<<F1>>))}

RealtimeOutcomes ==
    CASE scn = "aux" -> {Resp(HttpOk, <<S1(5, "2026-01-01")>>), Resp(HttpOk, <<S1(5, None)>>), NetFail("timeout")}
      [] scn = "conc" -> {Resp(HttpOk, <<S1(5, None), S2(2)>>), Resp(HttpOk, <<S1(7, None), S2(4)>>)}
      [] scn = "reconfigure" -> {Resp(HttpOk, <<S1(5, None), S2(2)>>), Resp(HttpOk, <<S1(7, None)>>),
                                 NetFail("timeout")}
      [] scn = "stations" -> {Resp(HttpOk, <<S1(5, None), S2(2)>>), Resp(HttpOk, <<S1(7, None)>>),
                              Resp(HttpOk, <<S2(4)>>), Resp(HttpOk, <<S2ByNumber(3)>>),
                              Resp(HttpOk, <<>>), NetFail("timeout")}
      [] OTHER -> {Resp(HttpOk, <<S1(5, None)>>)}

VoucherAnswer(e, r, l) == Resp(HttpOk, VoucherPayload(e, r, l))

VoucherOutcomes ==
    IF scn = "mypage"
    THEN {VoucherAnswer(None, "2024-05-01", "2026-01-05"), VoucherAnswer(None, None, "n/a"), NetFail("timeout")}
    ELSE {NoMethod}

LeftPageOutcomes ==
    IF scn = "aux" THEN {Resp(HttpOk, LeftPage("2026-03-03")), Resp(HttpOk, LeftPage(None)), NetFail("timeout")}
    ELSE {Resp(HttpOk, LeftPage("2026-03-03"))}

\* ----------------------------------------------------- the session stage
\* lines 1078-1085: the first rent-status check
CycleRentStatus ==
    /\ cyc.pc = "rent_status"
    /\ \E o1 \in RentPrimary, o2 \in RentAlt :
         LET r == fetch_rent_status(api, o1, o2)
             ok == IF r.raised THEN "None" ELSE _status_login_ok(r.body)
             c == [Did(cyc, "rent_status") EXCEPT
                      !.rent_status = IF r.raised THEN ErrorDict(r.exc) ELSE r.body,
                      !.first_rent = IF r.raised THEN ErrorDict(r.exc) ELSE r.body,
                      !.login_ok = ok, !.first_ok = ok]
         IN IF ok = "False" /\ c.username # "" /\ c.password # ""
            THEN CycleGoto([c EXCEPT !.pc = "login"], r.api, co)
            ELSE CycleAfterSession(c, r.api, co)

\* lines 1086-1092 and 1095-1096: login(), then the new cookie is persisted
\* and installed; a failed login leaves login_ok False
CycleLogin ==
    /\ cyc.pc = "login"
    /\ \E lg \in LoginExchanges :
         LET r == login(api, lg)
             c == Did(cyc, "login")
         IN IF r.raised
            THEN CycleAfterSession([c EXCEPT !.login_res = "raised"], r.api, co) /\ UNCHANGED entry
            ELSE /\ entry' = async_update_entry(entry, r.body)
                 /\ hist' = [hist EXCEPT !.persisted = r.body]
                 /\ api' = SetCookie(r.api, r.body)
                 /\ cyc' = [Did(c, "persist") EXCEPT !.pc = "retry_rent", !.login_res = "ok",
                                                     !.new_cookie = r.body]
                 /\ UNCHANGED <<call, scn, co, data, lock, task>>

\* lines 1093-1096: the retried check; an exception leaves login_ok as it was
CycleRetryRent ==
    /\ cyc.pc = "retry_rent"
    /\ \E o1 \in RentPrimary, o2 \in RentAlt :
         LET r == fetch_rent_status(api, o1, o2)
             c == Did(cyc, "rent_status")
         IN IF r.raised
            THEN CycleAfterSession(c, r.api, co)
            ELSE CycleAfterSession([c EXCEPT !.rent_status = r.body, !.login_ok = _status_login_ok(r.body)],
                                   r.api, co)

\* --------------------------------------------- the rest of the poll cycle
\* lines 1122-1125
CycleUserStatus ==
    /\ cyc.pc = "user_status"
    /\ \E o \in UserOutcomes :
         LET r == fetch_user_status(api, o)
             c == Did(cyc, "user_status")
         IN CycleGoto(IF r.raised
                      THEN [Failure(c, "user_status", r.exc) EXCEPT !.pc = "reconsent",
                                                                   !.user_status = ErrDict(r.exc)]
                      ELSE [c EXCEPT !.pc = "reconsent", !.user_status = r.body],
                      r.api, co)

\* lines 1126-1129
CycleReconsent ==
    /\ cyc.pc = "reconsent"
    /\ \E o \in ReconsentOutcomes :
         LET r == fetch_reconsent_status(api, o)
             c == Did(cyc, "reconsent")
         IN CycleGoto(IF r.raised
                      THEN [Failure(c, "reconsent", r.exc) EXCEPT !.pc = "history",
                                                                 !.reconsent_status = ErrDict(r.exc)]
                      ELSE [c EXCEPT !.pc = "history", !.reconsent_status = r.body],
                      r.api, co)

\* lines 1131-1174: the usage-history page, its classification, parse and merge
CycleHistory ==
    /\ cyc.pc = "history"
    /\ \E o \in HistoryOutcomes :
         LET r == fetch_use_history_html(api, o)
             c == Did(cyc, "history")
             payload == WithDefaultRange(_merge_latest_history(_parse_use_history(r.body), data.periods))
             hist_id == IF payload.history # <<>> THEN Head(payload.history).history_id ELSE None
         IN IF r.raised THEN CycleFail(c, r.api, co, r.exc)
            ELSE IF _looks_like_login(r.body) THEN CycleDegraded(c, r.api, co, "degraded_history")
            ELSE CycleGoto([c EXCEPT !.periods = payload, !.rows = r.body.rows,
                                     !.pc = IF Truthy(hist_id) THEN "move_route" ELSE "favorites"],
                           r.api, co)

\* lines 1175-1178
CycleMoveRoute ==
    /\ cyc.pc = "move_route"
    /\ \E o \in MoveRouteOutcomes :
         LET r == fetch_move_route(api, o)
             c == Did(cyc, "move_route")
         IN CycleGoto([c EXCEPT !.pc = "favorites",
                                !.periods.move_route = IF r.raised THEN ErrDict(r.exc) ELSE r.body],
                      r.api, co)

\* lines 1234-1321: my_page, favorite_status, stations, nearby, the snapshot
CycleFinish(c, a, c_o, ticket_expiry_iso) ==
    LET my_page == [c.voucher_info EXCEPT !.error = c.voucher_payload.error,
                                          !.voucher_end_dttm = ticket_expiry_iso]
        favorite_status == AllFavoriteStatus(c.favorites, c.realtime_list, <<>>)
        prev_stations == c_o.stations_by_id
        resolved == ResolveStations(c_o.station_ids, c.realtime_list, prev_stations, <<>>)
        c1 == [c_o EXCEPT !.stations_by_id =
                   IF ~c.has_station_ids THEN <<>>
                   ELSE IF resolved # <<>> \/ prev_stations = <<>> THEN resolved
                   ELSE prev_stations]
        c2 == IF c.realtime_list # <<>> THEN _compute_nearby_from_statuses(c1, c.realtime_list)
              ELSE _compute_nearby(c1)
        c3 == _sync_last_request_meta(c2, a)
        snap == [error |-> None, periods |-> c.periods, ticket_expiry |-> ticket_expiry_iso,
                 my_page |-> my_page, favorites |-> c.favorites, favorite_status |-> favorite_status,
                 rent_status |-> c.rent_status, user_status |-> c.user_status,
                 reconsent_status |-> c.reconsent_status, validation_status |-> c3.validation_status,
                 last_request |-> LastRequest(c3), nearby_count |-> <<Len(c3.nearby)>>,
                 station_count |-> <<Len(c3.stations_by_id)>>]
    IN CycleReturn(c, a, c3, snap, "published")

\* lines 1221-1230: the ticket expiry of the realtime list wins, reg_dttm and
\* last_login_dttm fall back on the previous snapshot
CycleAfterVoucher(c, a, c_o, voucher_info0) ==
    LET realtime_voucher_end == _extract_voucher_end_from_realtime(c.realtime_list)
        v1 == IF Truthy(realtime_voucher_end)
              THEN [voucher_info0 EXCEPT !.voucher_end_dttm = realtime_voucher_end] ELSE voucher_info0
        v2 == IF ~Truthy(v1.reg_dttm) /\ Truthy(c.prev_my_page.reg_dttm)
              THEN [v1 EXCEPT !.reg_dttm = c.prev_my_page.reg_dttm] ELSE v1
        v3 == IF ~Truthy(v2.last_login_dttm) /\ Truthy(c.prev_my_page.last_login_dttm)
              THEN [v2 EXCEPT !.last_login_dttm = c.prev_my_page.last_login_dttm] ELSE v2
        c1 == [c EXCEPT !.voucher_info = v3]
    IN IF ~Truthy(v3.voucher_end_dttm)
       THEN CycleGoto([c1 EXCEPT !.pc = "left_page"], a, c_o)
       ELSE CycleFinish(c1, a, c_o, v3.voucher_end_dttm)

\* lines 1210-1214: the call raises at the attribute lookup, before the
\* coroutine could suspend, so it belongs to the step of the preceding fetch
CycleVoucherResult(c, r, c_o, payload) ==
    CycleAfterVoucher([c EXCEPT !.voucher_payload = payload], r.api, c_o, _extract_voucher_info(payload))

CycleVoucherDone(c, r, c_o) ==
    IF r.raised
    THEN CycleVoucherResult(Failure(Did(c, "voucher"), "voucher", r.exc), r, c_o, VoucherError(r.exc))
    ELSE CycleVoucherResult(Did(c, "voucher"), r, c_o, r.body)

CycleVoucher(c, a, c_o) == CycleVoucherDone(c, fetch_voucher_info(a), c_o)

\* lines 1193-1220: prev_my_page is read here, before the voucher fetch
CycleAfterRealtime(c, a, c_o) ==
    LET realtime_voucher_end == _extract_voucher_end_from_realtime(c.realtime_list)
        prev_my_page == data.my_page
        need_voucher_api == \/ ~Truthy(realtime_voucher_end)
                            \/ ~Truthy(prev_my_page.reg_dttm)
                            \/ ~Truthy(prev_my_page.last_login_dttm)
        c1 == [c EXCEPT !.prev_my_page = prev_my_page]
    IN IF need_voucher_api
       THEN IF VoucherOutcomes = {NoMethod}
            THEN CycleVoucher(c1, a, c_o)
            ELSE CycleGoto([c1 EXCEPT !.pc = "voucher"], a, c_o)
       ELSE CycleAfterVoucher(c1, a, c_o,
                [NoMyPage EXCEPT !.reg_dttm = prev_my_page.reg_dttm,
                                 !.last_login_dttm = prev_my_page.last_login_dttm])

\* lines 1180-1186
CycleFavorites ==
    /\ cyc.pc = "favorites"
    /\ \E o \in FavoritesOutcomes :
         LET r == fetch_favorites_html(api, o)
             c == Did(cyc, "favorites")
             favorites == IF _looks_like_login(r.body) THEN <<>> ELSE r.body.favs
         IN IF r.raised THEN CycleFail(c, r.api, co, r.exc)
            ELSE IF co.station_ids # <<>> \/ favorites # <<>>
                 THEN CycleGoto([c EXCEPT !.pc = "realtime", !.favorites = favorites], r.api, co)
                 ELSE CycleAfterRealtime([c EXCEPT !.favorites = favorites], r.api, co)

\* lines 1187-1191
CycleRealtime ==
    /\ cyc.pc = "realtime"
    /\ \E o \in RealtimeOutcomes :
         LET r == fetch_station_realtime_all(api, o)
             c == Did(cyc, "realtime")
         IN IF r.raised
            THEN CycleAfterRealtime([Failure(c, "realtime", r.exc) EXCEPT !.realtime_list = <<>>], r.api, co)
            ELSE CycleAfterRealtime([c EXCEPT !.realtime_list = r.body], r.api, co)

\* lines 1210-1214 when the voucher endpoint answers: the coroutine suspends
CycleVoucherFetch ==
    /\ cyc.pc = "voucher"
    /\ \E o \in VoucherOutcomes : CycleVoucherDone(cyc, voucher_info_endpoint(api, o), co)

\* lines 1230-1232
CycleLeftPage ==
    /\ cyc.pc = "left_page"
    /\ \E o \in LeftPageOutcomes :
         LET r == fetch_left_page_html(api, o)
             c == Did(cyc, "left_page")
             ticket_expiry == IF _looks_like_login(r.body) THEN None ELSE _parse_ticket_expiry(r.body)
         IN IF r.raised THEN CycleFail(c, r.api, co, r.exc)
            ELSE CycleFinish([c EXCEPT !.left_expiry = ticket_expiry], r.api, co, ticket_expiry)

Cycle ==
    \/ CycleStart
    \/ CycleRentStatus
    \/ CycleLogin
    \/ CycleRetryRent
    \/ CycleUserStatus
    \/ CycleReconsent
    \/ CycleHistory
    \/ CycleMoveRoute
    \/ CycleFavorites
    \/ CycleRealtime
    \/ CycleLeftPage

\* ------------------------------------------------ the user-invoked refreshes
TaskIds == {"r1", "r2"}

\* The locals of one refresh coroutine; snap is its copy dict(self.data).
IdleTask ==
    [pc |-> "idle", kind |-> None, arg |-> None, login_ok |-> "None", username |-> "", password |-> "",
     rent_status |-> EmptyDict, snap |-> NoData, prev_my_page |-> NoMyPage, my_page |-> NoMyPage,
     realtime_voucher_end |-> None, base_html |-> EmptyPage, payload |-> NoPayload,
     voucher_payload |-> VoucherPayload(None, None, None),
     outcome |-> "none", first_ok |-> "unset", logins |-> 0]

Kinds ==
    CASE scn = "ensure" -> {"favorite"}
      [] scn = "stale" -> {"use_history"}
      [] scn = "mypage" -> {"my_page"}
      [] scn = "trips" -> {"use_history"}
      [] scn = "release" -> {"use_history", "favorite", "station"}
      [] OTHER -> {"my_page", "use_history", "favorite", "station", "controller"}

Args(kind) ==
    IF kind = "favorite" THEN {"ST-1"}
    ELSE IF kind = "station" THEN {"ST-1", "ST-9"}
    ELSE IF kind = "use_history" THEN {"history"}
    ELSE {None}

TaskGoto(t, l, a, c_o) ==
    /\ task' = [task EXCEPT ![t] = l]
    /\ api' = a
    /\ co' = c_o
    /\ UNCHANGED <<call, scn, entry, data, lock, cyc, hist>>

\* a coroutine that returns without leaving the lock
TaskExitHolding(t, l, a, c_o, outcome) ==
    /\ task' = [task EXCEPT ![t] = [IdleTask EXCEPT !.outcome = outcome, !.kind = l.kind, !.arg = l.arg,
                                                    !.first_ok = l.first_ok, !.logins = l.logins,
                                                    !.voucher_payload = l.voucher_payload]]
    /\ api' = a
    /\ co' = c_o
    /\ lock' = lock
    /\ UNCHANGED <<call, scn, entry, data, cyc, hist>>

\* the coroutine leaves "async with self._refresh_lock" without publishing:
\* an early return, or an exception that escapes to the caller
TaskExit(t, l, a, c_o, outcome) ==
    /\ task' = [task EXCEPT ![t] = [IdleTask EXCEPT !.outcome = outcome, !.kind = l.kind, !.arg = l.arg,
                                                    !.first_ok = l.first_ok, !.logins = l.logins,
                                                    !.voucher_payload = l.voucher_payload]]
    /\ api' = a
    /\ co' = c_o
    /\ lock' = None
    /\ UNCHANGED <<call, scn, entry, data, cyc, hist>>

\* async_set_updated_data(snap), then the lock is released
TaskPublish(t, l, a, c_o, snap) ==
    /\ task' = [task EXCEPT ![t] = [IdleTask EXCEPT !.outcome = "published", !.kind = l.kind, !.arg = l.arg,
                                                    !.first_ok = l.first_ok, !.logins = l.logins,
                                                    !.voucher_payload = l.voucher_payload]]
    /\ api' = a
    /\ co' = c_o
    /\ data' = snap
    /\ lock' = None
    /\ hist' = [hist EXCEPT !.last_pub = t, !.trip = LatestTrip(snap, @)]
    /\ UNCHANGED <<call, scn, entry, cyc>>

\* a button is pressed: the coroutine is created and waits for the lock
Invoke(t) ==
    /\ hist.ready
    /\ hist.invokes < InvokeBound
    /\ task[t].pc = "idle"
    /\ \E kind \in Kinds : \E arg \in Args(kind) :
         task' = [task EXCEPT ![t] = [IdleTask EXCEPT !.pc = "wait", !.kind = kind, !.arg = arg]]
    /\ hist' = [hist EXCEPT !.invokes = @ + 1]
    /\ UNCHANGED <<call, scn, entry, api, co, data, lock, cyc>>

\* a coroutine that enters its body whoever holds the lock
AcquireUnlocked(t) ==
    /\ task[t].pc = "wait"
    /\ lock' = t
    /\ task[t].kind = "station" => HasStation(co.stations_by_id, task[t].arg)
    /\ LET l == task[t]
       IN IF l.kind \in {"my_page", "use_history", "favorite"}
          THEN /\ api' = SetCookie(api, RawCookie(entry))
               /\ task' = [task EXCEPT ![t] = [l EXCEPT !.pc = "ens_rent",
                                                        !.username = Strip(StrOrEmpty(entry.username)),
                                                        !.password = Strip(StrOrEmpty(entry.password))]]
          ELSE IF l.kind = "station"
          THEN /\ api' = api
               /\ task' = [task EXCEPT ![t] = [l EXCEPT !.pc = "st_realtime", !.snap = data]]
          ELSE /\ api' = api
               /\ task' = [task EXCEPT ![t] = [l EXCEPT !.pc = "sc_realtime"]]
    /\ UNCHANGED <<call, scn, entry, co, data, cyc, hist>>

\* "async with self._refresh_lock", then the code up to the first fetch:
\* lines 773-779 of _ensure_login, 989-991 of async_refresh_station
Acquire(t) ==
    /\ task[t].pc = "wait"
    /\ lock = None
    /\ lock' = t
    /\ task[t].kind = "station" => HasStation(co.stations_by_id, task[t].arg)
    /\ LET l == task[t]
       IN IF l.kind \in {"my_page", "use_history", "favorite"}
          THEN /\ api' = SetCookie(api, RawCookie(entry))
               /\ task' = [task EXCEPT ![t] = [l EXCEPT !.pc = "ens_rent",
                                                        !.username = Strip(StrOrEmpty(entry.username)),
                                                        !.password = Strip(StrOrEmpty(entry.password))]]
          ELSE IF l.kind = "station"
          THEN /\ api' = api
               /\ task' = [task EXCEPT ![t] = [l EXCEPT !.pc = "st_realtime", !.snap = data]]
          ELSE /\ api' = api
               /\ task' = [task EXCEPT ![t] = [l EXCEPT !.pc = "sc_realtime"]]
    /\ UNCHANGED <<call, scn, entry, co, data, cyc, hist>>

\* lines 988-991: async_refresh_station of an unknown station takes the lock
\* and returns at once
StationUnknown(t) ==
    /\ task[t].pc = "wait"
    /\ lock = None
    /\ task[t].kind = "station"
    /\ ~HasStation(co.stations_by_id, task[t].arg)
    /\ TaskExit(t, task[t], api, co, "returned")

\* lines 799-809 of _ensure_login, then the lines of the caller up to its
\* first fetch (814-819, 877-880, 926-934)
AfterEnsure(t, l, a, c_o) ==
    LET c1 == IF l.login_ok = "False"
              THEN [c_o EXCEPT !.validation_status = "login_page", !.last_error = "login_page"]
              ELSE IF l.login_ok = "None" THEN [c_o EXCEPT !.validation_status = "error"]
              ELSE [c_o EXCEPT !.validation_status = "ok", !.last_error = None]
        c2 == _sync_last_request_meta(c1, a)
        is_target(i) == Strip(StrOrEmpty(data.favorites[i].station_id)) = l.arg
    IN IF l.kind = "favorite"
       THEN IF \E i \in 1..Len(data.favorites) : is_target(i)
            THEN TaskGoto(t, [l EXCEPT !.pc = "fav_realtime", !.snap = data], a, c2)
            ELSE TaskExit(t, l, a, c2, "returned")
       ELSE IF l.login_ok = "False" THEN TaskExit(t, l, a, c2, "returned")
       ELSE IF l.kind = "my_page"
            THEN TaskGoto(t, [l EXCEPT !.pc = "mp_realtime", !.prev_my_page = data.my_page], a, c2)
            ELSE TaskGoto(t, [l EXCEPT !.pc = "uh_base"], a, c2)

\* lines 780-786
EnsureRent(t) ==
    /\ task[t].pc = "ens_rent"
    /\ \E o1 \in RentPrimary, o2 \in RentAlt :
       \E r \in {fetch_rent_status(api, o1, o2)} :
       \E ok \in {IF r.raised THEN "None" ELSE _status_login_ok(r.body)} :
       \E l \in {[task[t] EXCEPT !.rent_status = IF r.raised THEN ErrorDict(r.exc) ELSE r.body,
                                 !.login_ok = ok, !.first_ok = ok]} :
          IF ok = "False" /\ l.username # "" /\ l.password # ""
          THEN TaskGoto(t, [l EXCEPT !.pc = "ens_login"], r.api, co)
          ELSE AfterEnsure(t, l, r.api, co)

\* lines 787-793 and 796-797
EnsureLogin(t) ==
    /\ task[t].pc = "ens_login"
    /\ \E lg \in LoginExchanges :
         LET r == login(api, lg)
             l == [task[t] EXCEPT !.logins = @ + 1]
         IN IF r.raised
            THEN AfterEnsure(t, l, r.api, co) /\ UNCHANGED entry
            ELSE /\ entry' = async_update_entry(entry, r.body)
                 /\ hist' = [hist EXCEPT !.persisted = r.body]
                 /\ api' = SetCookie(r.api, r.body)
                 /\ task' = [task EXCEPT ![t] = [l EXCEPT !.pc = "ens_retry"]]
                 /\ UNCHANGED <<call, scn, co, data, lock, cyc>>

\* lines 794-797
EnsureRetry(t) ==
    /\ task[t].pc = "ens_retry"
    /\ \E o1 \in RentPrimary, o2 \in RentAlt :
         LET r == fetch_rent_status(api, o1, o2)
         IN IF r.raised
            THEN AfterEnsure(t, task[t], r.api, co)
            ELSE AfterEnsure(t, [task[t] EXCEPT !.rent_status = r.body,
                                                !.login_ok = _status_login_ok(r.body)], r.api, co)

\* lines 864-871, 912-919, 979-984: the keys every account refresh rewrites
WithRequestKeys(snap, c_o) ==
    [snap EXCEPT !.validation_status = c_o.validation_status, !.last_request = LastRequest(c_o)]

\* "if rent_status: data['rent_status'] = rent_status"
WithRentStatus(snap, rent_status) ==
    IF rent_status # EmptyDict THEN [snap EXCEPT !.rent_status = rent_status] ELSE snap

\* ---- async_refresh_favorite_station, lines 936-985
FavoriteRealtime(t) ==
    /\ task[t].pc = "fav_realtime"
    /\ \E o \in RealtimeOutcomes :
       \E r \in {fetch_station_realtime_all(api, o)}, l \in {task[t]} :
       \E c1 \in {_sync_last_request_meta(co, r.api)} :
       \E realtime_list \in {IF r.raised THEN <<>> ELSE r.body}, favs \in {l.snap.favorites} :
       \E target \in {favs[CHOOSE i \in 1..Len(favs) :
                              /\ Strip(StrOrEmpty(favs[i].station_id)) = l.arg
                              /\ \A j \in 1..(i - 1) : Strip(StrOrEmpty(favs[j].station_id)) # l.arg]} :
       \E status \in {FavoriteStatus(target, realtime_list, <<>>, <<>>)} :
       \E snap \in {[l.snap EXCEPT !.favorite_status = PutStatus(@, status)]} :
       \E published \in {WithRequestKeys(snap, c1)} :
          TaskPublish(t, l, r.api, c1, published)

\* ---- async_refresh_station, lines 993-1020
StationRealtime(t) ==
    /\ task[t].pc = "st_realtime"
    /\ \E o \in RealtimeOutcomes :
       \E r \in {fetch_station_realtime_all(api, o)}, l \in {task[t]} :
       \E c1 \in {_sync_last_request_meta(co, r.api)} :
       \E realtime_list \in {IF r.raised THEN <<>> ELSE r.body}, prev \in {c1.stations_by_id} :
       \E known \in {HasStation(prev, l.arg)} :
       \E station_no \in {IF known THEN GetStation(prev, l.arg).station_no ELSE None} :
       \E found \in {FindStatus(realtime_list, l.arg, station_no)} :
       \E st \in {IF found = <<>> THEN NoStation ELSE _station_from_status(found[1], l.arg, station_no)} :
       \E c2 \in {IF st # NoStation THEN [c1 EXCEPT !.stations_by_id = PutStation(prev, l.arg, st)] ELSE c1} :
       \E published \in {[l.snap EXCEPT !.station_count = <<Len(c2.stations_by_id)>>]} :
          TaskPublish(t, l, r.api, c2, published)

\* ---- async_refresh_station_controller, lines 1024-1035
ControllerRealtime(t) ==
    /\ task[t].pc = "sc_realtime"
    /\ \E o \in RealtimeOutcomes :
         LET r == fetch_station_realtime_all(api, o)
             c1 == _sync_last_request_meta(co, r.api)
             c2 == IF ~r.raised /\ r.body # <<>> THEN _compute_nearby_from_statuses(c1, r.body) ELSE c1
         IN TaskPublish(t, task[t], r.api, c2, [data EXCEPT !.nearby_count = <<Len(c2.nearby)>>])

\* ---- async_refresh_my_page, lines 820-872
MyPagePublish(t, l, a, c_o) ==
    LET c1 == _sync_last_request_meta(c_o, a)
        snap == WithRentStatus([data EXCEPT !.my_page = l.my_page], l.rent_status)
    IN TaskPublish(t, l, a, c1, WithRequestKeys(snap, c1))

\* lines 843-850
MyPageAfterVoucher(t, l, a, c_o) ==
    LET m1 == IF ~Truthy(l.my_page.reg_dttm) /\ Truthy(l.prev_my_page.reg_dttm)
              THEN [l.my_page EXCEPT !.reg_dttm = l.prev_my_page.reg_dttm] ELSE l.my_page
        m2 == IF ~Truthy(m1.last_login_dttm) /\ Truthy(l.prev_my_page.last_login_dttm)
              THEN [m1 EXCEPT !.last_login_dttm = l.prev_my_page.last_login_dttm] ELSE m1
        m3 == IF Truthy(l.realtime_voucher_end)
              THEN [m2 EXCEPT !.voucher_end_dttm = l.realtime_voucher_end] ELSE m2
        l1 == [l EXCEPT !.my_page = m3]
    IN IF ~Truthy(m3.voucher_end_dttm)
       THEN TaskGoto(t, [l1 EXCEPT !.pc = "mp_left"], a, c_o)
       ELSE MyPagePublish(t, l1, a, c_o)

\* lines 833-838: as in the cycle, the call raises without suspending
MyPageVoucherDone(t, l, r, c_o) ==
    IF r.raised
    THEN MyPageAfterVoucher(t, [l EXCEPT !.my_page.error = r.exc, !.voucher_payload = VoucherError(r.exc)],
                            r.api, [c_o EXCEPT !.last_error = r.exc])
    ELSE MyPageAfterVoucher(t, [l EXCEPT !.my_page = _extract_voucher_info(r.body), !.voucher_payload = r.body],
                            r.api, c_o)

MyPageVoucher(t, l, a, c_o) == MyPageVoucherDone(t, l, fetch_voucher_info(a), c_o)

\* lines 821-841
MyPageRealtime(t) ==
    /\ task[t].pc = "mp_realtime"
    /\ \E o \in RealtimeOutcomes :
         LET r == fetch_station_realtime_all(api, o)
             l == task[t]
             rve == IF r.raised THEN None ELSE _extract_voucher_end_from_realtime(r.body)
             need_voucher_api == \/ ~Truthy(rve)
                                 \/ ~Truthy(l.prev_my_page.reg_dttm)
                                 \/ ~Truthy(l.prev_my_page.last_login_dttm)
             l1 == [l EXCEPT !.realtime_voucher_end = rve]
         IN IF need_voucher_api
            THEN IF VoucherOutcomes = {NoMethod}
                 THEN MyPageVoucher(t, l1, r.api, co)
                 ELSE TaskGoto(t, [l1 EXCEPT !.pc = "mp_voucher"], r.api, co)
            ELSE MyPageAfterVoucher(t, [l1 EXCEPT !.my_page.reg_dttm = l.prev_my_page.reg_dttm,
                                                  !.my_page.last_login_dttm = l.prev_my_page.last_login_dttm],
                                    r.api, co)

\* lines 833-838 when the voucher endpoint answers
MyPageVoucherFetch(t) ==
    /\ task[t].pc = "mp_voucher"
    /\ \E o \in VoucherOutcomes : MyPageVoucherDone(t, task[t], voucher_info_endpoint(api, o), co)

\* lines 851-857
MyPageLeft(t) ==
    /\ task[t].pc = "mp_left"
    /\ \E o \in LeftPageOutcomes :
         LET r == fetch_left_page_html(api, o)
             l == task[t]
             ticket_expiry == IF r.raised THEN None
                              ELSE IF _looks_like_login(r.body) THEN None
                              ELSE _parse_ticket_expiry(r.body)
         IN MyPagePublish(t, IF Truthy(ticket_expiry)
                             THEN [l EXCEPT !.my_page.voucher_end_dttm = ticket_expiry] ELSE l,
                          r.api, co)

\* ---- async_refresh_use_history, lines 880-920
UseHistoryPublish(t, l, a, c_o, payload) ==
    \E snap \in {WithRentStatus([data EXCEPT !.periods = payload], l.rent_status)} :
    \E published \in {WithRequestKeys(snap, c_o)} :
       TaskPublish(t, l, a, c_o, published)

\* line 881
UseHistoryBase(t) ==
    /\ task[t].pc = "uh_base"
    /\ \E o \in HistoryOutcomes :
         LET r == fetch_use_history_html(api, o)
         IN IF r.raised THEN TaskExit(t, task[t], r.api, co, "raised")
            ELSE TaskGoto(t, [task[t] EXCEPT !.pc = "uh_period", !.base_html = r.body], r.api, co)

\* lines 882-902
UseHistoryPeriod(t) ==
    /\ task[t].pc = "uh_period"
    /\ \E o1 \in HistoryPostOutcomes, o2 \in HistoryOutcomes :
       \E l \in {task[t]} :
       \E r \in {fetch_use_history_period(api, l.base_html, o1, o2)} :
       \E c1 \in {_sync_last_request_meta(co, r.api)} :
       \E c2 \in {_sync_last_request_meta(
                      [c1 EXCEPT !.validation_status = "login_page", !.last_error = "login_page"], r.api)} :
       \E parsed \in {_parse_use_history(r.body)} :
       \E merged \in {_merge_latest_history(parsed, data.periods)} :
       \E payload \in {WithDefaultRange(merged)} :
       \E hist_id \in {IF payload.history # <<>> THEN Head(payload.history).history_id ELSE None} :
          IF r.raised THEN TaskExit(t, l, r.api, co, "raised")
          ELSE IF _looks_like_login(r.body) THEN TaskExit(t, l, r.api, c2, "returned")
          ELSE IF Truthy(hist_id)
               THEN TaskGoto(t, [l EXCEPT !.pc = "uh_route", !.payload = payload], r.api, c1)
               ELSE UseHistoryPublish(t, l, r.api, c1, payload)

\* lines 903-906
UseHistoryRoute(t) ==
    /\ task[t].pc = "uh_route"
    /\ \E o \in MoveRouteOutcomes :
         LET r == fetch_move_route(api, o)
             l == task[t]
         IN UseHistoryPublish(t, l, r.api, co,
                [l.payload EXCEPT !.move_route = IF r.raised THEN ErrDict(r.exc) ELSE r.body])

\* ---------------------------------------------------------- configuration
\* OptionsFlowHandler.async_step_cookie: a validated cookie line is written
\* to entry.data and becomes the entry's options
UserCookies == {"JSESSIONID=U1"}

async_step_cookie ==
    /\ hist.ready
    /\ \E cookie_line \in UserCookies :
         /\ entry.options_cookie # cookie_line
         /\ entry' = [entry EXCEPT !.data_cookie = cookie_line, !.options_cookie = cookie_line]
    /\ hist' = [hist EXCEPT !.persisted = None]
    /\ UNCHANGED <<call, scn, api, co, data, lock, cyc, task>>

\* ------------------------------------------------------- specifications
\* no helper is called on its own while the coordinator runs
NoCall == [fn |-> None]

NewEntry(cookie, options_cookie, username, password, station_ids) ==
    [data_cookie |-> cookie, options_cookie |-> options_cookie, username |-> username, password |-> password,
     station_ids |-> station_ids, radius_m |-> DEFAULT_RADIUS_M, max_results |-> DEFAULT_MAX_RESULTS,
     min_bikes |-> DEFAULT_MIN_BIKES]

InitWith(scenario, entries) ==
    /\ scn = scenario
    /\ entry \in entries
    /\ api = NewApi(RawCookie(entry))
    /\ co = NewCoordinator
    /\ data = NoData
    /\ lock = None
    /\ cyc = IdleCycle
    /\ task = [t \in TaskIds |-> IdleTask]
    /\ hist = [ready |-> FALSE, persisted |-> None, last_pub |-> None, cycles |-> 0, invokes |-> 0,
               trip |-> NoTrip]
    /\ call = NoCall

Credentials == {[username |-> u, password |-> p] : u \in {None, " ", "user"}, p \in {None, "pw"}}

\* the session stage: every answer of the rent-status check and of login(),
\* with and without stored credentials; the options flow replaces the cookie.
\* An entry whose options hold a cookie is one the options flow has run on;
\* its data cookie differs from it once a re-login has rewritten entry.data.
InitSession ==
    InitWith("session", {NewEntry("JSESSIONID=U0", oc, cr.username, cr.password, <<>>) :
                             oc \in {None, "JSESSIONID=U1"}, cr \in Credentials})

NextSession == Cycle \/ async_step_cookie

SpecSession == InitSession /\ [][NextSession]_vars

\* the account buttons: _ensure_login against a session that may have expired
InitEnsure ==
    InitWith("ensure", {NewEntry("JSESSIONID=U0", None, u, p, <<>>) : u \in {" ", "user"}, p \in {None, "pw"}})

NextEnsure ==
    \/ Cycle
    \/ Invoke("r1")
    \/ Acquire("r1")
    \/ EnsureRent("r1")
    \/ EnsureLogin("r1")
    \/ EnsureRetry("r1")
    \/ FavoriteRealtime("r1")

SpecEnsure == InitEnsure /\ [][NextEnsure]_vars

Polling ==
    \/ CycleStart
    \/ CycleRentStatus
    \/ CycleUserStatus
    \/ CycleReconsent
    \/ CycleHistory
    \/ CycleMoveRoute
    \/ CycleFavorites
    \/ CycleRealtime
    \/ CycleLeftPage

\* a valid session whose auxiliary and page fetches fail in every way
InitAux == InitWith("aux", {NewEntry("JSESSIONID=U0", None, None, None, <<"ST-1">>)})

NextAux == Polling

SpecAux == InitAux /\ [][NextAux]_vars

\* the usage-history button pressed while the site fails intermittently
InitStale == InitWith("stale", {NewEntry("JSESSIONID=U0", None, None, None, <<>>)})

NextStale ==
    \/ Polling
    \/ Invoke("r1")
    \/ Acquire("r1")
    \/ EnsureRent("r1")
    \/ UseHistoryBase("r1")
    \/ UseHistoryPeriod("r1")
    \/ UseHistoryRoute("r1")

SpecStale == InitStale /\ [][NextStale]_vars

\* every button against a healthy site whose answers change between fetches
InitConc == InitWith("conc", {NewEntry("JSESSIONID=U0", None, None, None, <<"ST-1", "ST-2">>)})

NextConc ==
    \/ Polling
    \/ Invoke("r1")
    \/ Acquire("r1")
    \/ StationUnknown("r1")
    \/ EnsureRent("r1")
    \/ FavoriteRealtime("r1")
    \/ StationRealtime("r1")
    \/ ControllerRealtime("r1")
    \/ MyPageRealtime("r1")
    \/ MyPageLeft("r1")
    \/ UseHistoryBase("r1")
    \/ UseHistoryPeriod("r1")
    \/ UseHistoryRoute("r1")

SpecConc == InitConc /\ [][NextConc]_vars

\* two refreshes invoked beside the cycle
InitSerial == InitWith("serial", {NewEntry("JSESSIONID=U0", None, None, None, <<"ST-1", "ST-2">>)})

NextSerial ==
    \/ Polling
    \/ \E t \in TaskIds : Invoke(t)
    \/ \E t \in TaskIds : Acquire(t)
    \/ \E t \in TaskIds : StationUnknown(t)
    \/ \E t \in TaskIds : EnsureRent(t)
    \/ \E t \in TaskIds : FavoriteRealtime(t)
    \/ \E t \in TaskIds : StationRealtime(t)
    \/ \E t \in TaskIds : ControllerRealtime(t)
    \/ \E t \in TaskIds : MyPageRealtime(t)
    \/ \E t \in TaskIds : MyPageLeft(t)
    \/ \E t \in TaskIds : UseHistoryBase(t)
    \/ \E t \in TaskIds : UseHistoryPeriod(t)
    \/ \E t \in TaskIds : UseHistoryRoute(t)

SpecSerial == InitSerial /\ [][NextSerial]_vars

\* two refreshes that end in every way: by a publication, by a return on an
\* unknown station or an invalid session, by an exception of a fetch
InitRelease == InitWith("release", {NewEntry("JSESSIONID=U0", None, None, None, <<"ST-1">>)})

\* the steps of the coroutine of a refresh after its invocation
RefreshStep(t) ==
    \/ Acquire(t)
    \/ StationUnknown(t)
    \/ EnsureRent(t)
    \/ FavoriteRealtime(t)
    \/ StationRealtime(t)
    \/ UseHistoryBase(t)
    \/ UseHistoryPeriod(t)
    \/ UseHistoryRoute(t)

NextRelease ==
    \/ Polling
    \/ \E t \in TaskIds : Invoke(t)
    \/ \E t \in TaskIds : RefreshStep(t)

SpecRelease == InitRelease /\ [][NextRelease]_vars

\* every network call returns or raises and the lock wakes a waiting
\* coroutine up: a coroutine that can go on does
LiveRelease == SpecRelease /\ \A t \in TaskIds : WF_vars(RefreshStep(t))

\* the usage history over several cycles: pages with and without trips, the
\* login page instead of it, an expired session, a failed fetch
InitHistory == InitWith("history", {NewEntry("JSESSIONID=U0", None, None, None, <<>>)})

NextHistory == Polling

SpecHistory == InitHistory /\ [][NextHistory]_vars

\* usage-history pages with no, one or several trips, read by the cycle and
\* by the usage-history button
InitTrips == InitWith("trips", {NewEntry("JSESSIONID=U0", None, None, None, <<>>)})

NextTrips == NextStale

SpecTrips == InitTrips /\ [][NextTrips]_vars

\* --------------------------------------------- the OpenAPI client (paging)
\* modes/api/api.py.  The source answers the request of a row range with a
\* page: how many rows it has for the range, the list_total_count it reports,
\* and how the request fares: "ok", "flaky" (fails once, then answers), "down"
\* (fails at every attempt) or "auth" (the key is refused).
PAGE_SIZE_LIMIT == 1000

DEFAULT_RETRIES == 2

Min(a, b) == IF a <= b THEN a ELSE b

PageOf(src, start, page_size) == src[((start - 1) \div page_size) + 1]

\* root["row"] of the page: the rows the source has, by row number
RowsOf(src, start, end, page_size) ==
    [k \in 1..Min(PageOf(src, start, page_size).count, end - start + 1) |-> start + k - 1]

\* the requests of one page, oldest first
Attempts(n, start, end) == [k \in 1..n |-> <<start, end>>]

\* a page fetched with one attempt more than range(retries + 1) allows
RetryingOnceMore(src, start, end, page_size, retries) ==
    LET kind == PageOf(src, start, page_size).kind
    IN CASE kind = "ok" ->
              [raised |-> FALSE, auth |-> FALSE, rows |-> RowsOf(src, start, end, page_size),
               log |-> Attempts(1, start, end)]
         [] kind = "flaky" /\ retries >= 1 ->
              [raised |-> FALSE, auth |-> FALSE, rows |-> RowsOf(src, start, end, page_size),
               log |-> Attempts(2, start, end)]
         [] kind = "auth" ->
              [raised |-> TRUE, auth |-> TRUE, rows |-> <<>>, log |-> Attempts(1, start, end)]
         [] OTHER ->
              [raised |-> TRUE, auth |-> FALSE, rows |-> <<>>, log |-> Attempts(retries + 2, start, end)]

\* lines 110-132: the attempts of one page
_fetch_page_with_retry(src, start, end, page_size, retries) ==
    LET kind == PageOf(src, start, page_size).kind
    IN CASE kind = "ok" ->
              [raised |-> FALSE, auth |-> FALSE, rows |-> RowsOf(src, start, end, page_size),
               log |-> Attempts(1, start, end)]
         [] kind = "flaky" /\ retries >= 1 ->
              [raised |-> FALSE, auth |-> FALSE, rows |-> RowsOf(src, start, end, page_size),
               log |-> Attempts(2, start, end)]
         [] kind = "auth" ->
              [raised |-> TRUE, auth |-> TRUE, rows |-> <<>>, log |-> Attempts(1, start, end)]
         [] OTHER ->
              [raised |-> TRUE, auth |-> FALSE, rows |-> <<>>, log |-> Attempts(retries + 1, start, end)]

\* the page ends the paging on what list_total_count reports
LastPageByTotal(src, start, rows, page_size) ==
    start + Len(rows) - 1 >= PageOf(src, start, page_size).total

\* line 170: if len(rows) < page_size: break
LastPage(src, start, rows, page_size) == Len(rows) < page_size

\* the loop of fetch_all, lines 156-180
RECURSIVE FetchPages(_, _, _, _, _, _, _)
FetchPages(src, page_size, retries, start, pages_left, all_rows, log) ==
    IF pages_left = 0 THEN [raised |-> FALSE, exc |-> None, rows |-> all_rows, log |-> log]
    ELSE LET r == _fetch_page_with_retry(src, start, start + page_size - 1, page_size, retries)
         IN IF r.raised
            THEN [raised |-> TRUE, exc |-> IF r.auth THEN "auth" ELSE "paging_failed",
                  rows |-> <<>>, log |-> log \o r.log]
            ELSE IF LastPage(src, start, r.rows, page_size)
                 THEN [raised |-> FALSE, exc |-> None, rows |-> all_rows \o r.rows, log |-> log \o r.log]
                 ELSE FetchPages(src, page_size, retries, start + page_size, pages_left - 1,
                                 all_rows \o r.rows, log \o r.log)

fetch_all(src, page_size, max_pages, retries) ==
    FetchPages(src, Min(page_size, PAGE_SIZE_LIMIT), retries, 1, Max(1, max_pages), <<>>, <<>>)

\* every failure of fetch_all ends the cycle alike
UpdateFailedAlike(r) == IF r.raised THEN [r EXCEPT !.exc = "paging_failed"] ELSE r

\* modes/api/coordinator.py, lines 271-276 of _async_update_data: what the
\* cycle of the API mode makes of fetch_all: UpdateFailed("auth_failed: ...")
\* for SeoulBikeApiAuthError, UpdateFailed(str(err)) for any other error
UpdateFailedOf(r) == IF r.raised /\ r.exc = "auth" THEN [r EXCEPT !.exc = "auth_failed"] ELSE r

\* ------------------------------------------ the API mode: stations, nearby
\* modes/api/coordinator.py, lines 144-176: a row of the OpenAPI as a Station
\* (bikes_teen is kept under bikes_sprout; names are not modelled, so
\* station_no is empty)
_row_to_station(r) ==
    IF ~Truthy(r.stationId) THEN NoStation
    ELSE [station_id |-> r.stationId, station_no |-> "",
          lat |-> r.stationLatitude, lon |-> r.stationLongitude,
          bikes_total |-> _to_int(r.parkingBikeTotCnt, 0),
          bikes_general |-> _to_int(r.parkingBikeTotCntGeneral, _to_int(r.parkingBikeTotCnt, 0)),
          bikes_sprout |-> _to_int(r.parkingBikeTotCntTeen, 0),
          bikes_repair |-> _to_int(r.parkingBikeTotCntRepair, 0)]

\* modes/cookie/coordinator.py, lines 509-557: _station_from_status of the
\* cookie mode package, without the QR and electric counts and without the
\* derivation of the total from general + sprout
CookieTotal(status) ==
    IfNotPositive(_to_int(status.parkingBikeTotCnt, 0), _to_int(status.bikes_total, 0))

cookie_station_from_status(status, fallback_station_id, fallback_station_no) ==
    StationRecord(status,
                  FirstTruthy(status.stationId, fallback_station_id, fallback_station_no),
                  FirstTruthy(status.stationNo, fallback_station_no, None),
                  _to_int(status.parkingBikeTotCntGeneral, _to_int(status.parkingBikeTotCnt, 0)),
                  _to_int(status.parkingBikeTotCntTeen, 0),
                  CookieTotal(status))

\* lines 194-211: the filter loop, with min_bikes fixed to 1
ApiCandidate(st, dist, radius) ==
    IF dist > radius THEN <<>>
    ELSE IF st.bikes_total < 1 THEN <<>>
    ELSE <<[station_id |-> st.station_id, station_no |-> st.station_no,
            bikes_total |-> st.bikes_total, distance_m |-> dist]>>

RECURSIVE ApiCandidates(_, _)
ApiCandidates(c, stations) ==
    IF stations = <<>> THEN <<>>
    ELSE ApiCandidate(Head(stations),
                      haversine_m(c.center_lat, c.center_lon, Head(stations).lat, Head(stations).lon),
                      Max(1, IF c.radius_m = 0 THEN DEFAULT_RADIUS_M ELSE c.radius_m))
         \o ApiCandidates(c, Tail(stations))

\* lines 178-222: SeoulBikeCoordinator._compute_nearby
ApiComputeNearby(c) ==
    RankedFrom(_compute_center(c), SortCandidates(ApiCandidates(_compute_center(c), Values(c.stations_by_id))))

\* stations configured by id and by number, over cycles whose realtime list
\* has them, lacks them or fails
InitStations ==
    InitWith("stations", {NewEntry("JSESSIONID=U0", None, None, None, ids) :
                             ids \in {<<"ST-1", "102">>, <<"ST-2", "102">>, <<"102">>}})

NextStations == Polling

SpecStations == InitStations /\ [][NextStations]_vars

\* OptionsFlowHandler.async_step_api: the station list typed into the form is
\* parsed and stored as the entry's options; the coordinator reads the list
\* again at the start of each cycle (lines 1044-1046)
StationLists == {<<>>, <<"ST-1">>, <<"ST-2">>, <<"102">>, <<"ST-1", "102">>}

async_step_api ==
    /\ hist.ready
    /\ cyc.pc = "idle"
    /\ \E station_ids \in StationLists :
         /\ entry.station_ids # station_ids
         /\ entry' = [entry EXCEPT !.station_ids = station_ids]
    /\ UNCHANGED <<call, scn, api, co, data, lock, cyc, task, hist>>

\* the station list is changed between cycles whose realtime list has the
\* stations, lacks one of them or fails
InitReconfigure ==
    InitWith("reconfigure", {NewEntry("JSESSIONID=U0", None, None, None, ids) : ids \in {<<"ST-1">>, <<"ST-1", "102">>}})

NextReconfigure == Polling \/ async_step_api

SpecReconfigure == InitReconfigure /\ [][NextReconfigure]_vars

\* the account page refreshed by the cycle and by its button, with a voucher
\* endpoint that answers
InitMyPage == InitWith("mypage", {NewEntry("JSESSIONID=U0", None, None, None, <<>>)})

NextMyPage ==
    \/ Polling
    \/ CycleVoucherFetch
    \/ Invoke("r1")
    \/ Acquire("r1")
    \/ EnsureRent("r1")
    \/ MyPageRealtime("r1")
    \/ MyPageVoucherFetch("r1")
    \/ MyPageLeft("r1")

SpecMyPage == InitMyPage /\ [][NextMyPage]_vars

\* ------------------------------------------- helpers called on their own
\* the coordinator is idle: only call changes
InitCall(scenario, calls) ==
    /\ scn = scenario
    /\ entry = NewEntry("JSESSIONID=U0", None, None, None, <<>>)
    /\ api = NewApi(RawCookie(entry))
    /\ co = NewCoordinator
    /\ data = NoData
    /\ lock = None
    /\ cyc = IdleCycle
    /\ task = [t \in TaskIds |-> IdleTask]
    /\ hist = [ready |-> FALSE, persisted |-> None, last_pub |-> None, cycles |-> 0, invokes |-> 0,
               trip |-> NoTrip]
    /\ call \in calls

Returns(result) ==
    /\ call' = [call EXCEPT !.done = TRUE, !.result = result]
    /\ UNCHANGED <<scn, entry, api, co, data, lock, cyc, task, hist>>

\* usage-history pages: with no trip, one trip or two, each with or without
\* the kcal box and the two dates of the period form
HistoryPages ==
    {Page({"data"}, rows, kcal, start, end, <<>>, None) :
        rows \in {<<>>, <<T1>>, <<T2, T1>>}, kcal \in {None, "kcal1"},
        start \in {None, "", "2026-02-01"}, end \in {None, "2026-02-28"}}

\* periods["history"] of a snapshot: absent, or what an earlier publication
\* left there
PrevPeriods ==
    {NoPayload} \cup {WithDefaultRange(_merge_latest_history(_parse_use_history(
                          Page({"data"}, rows, kcal, start, start, <<>>, None)), NoPayload)) :
                         rows \in {<<>>, <<T2>>}, kcal \in {None, "kcal0"}, start \in {None, "2026-01-01"}}

MergeCalls ==
    [fn : {"_merge_latest_history"}, html : HistoryPages, prev : PrevPeriods,
     done : {FALSE}, result : {NoPayload}]

MergeCall ==
    /\ call.fn = "_merge_latest_history"
    /\ ~call.done
    /\ Returns(_merge_latest_history(_parse_use_history(call.html), call.prev))

InitMerge == InitCall("merge", MergeCalls)

NextMerge == MergeCall

SpecMerge == InitMerge /\ [][NextMerge]_vars

\* ------------------------------------------ entities of the favorite stations
\* sensor.py and button.py: each platform keeps the set of favorite stations it
\* has entities for and brings it in line with the snapshot in a task created
\* by its coordinator listener. The task is suspended at each
\* "await ent_reg.async_remove(entity_id)". Distance sensors are disabled and
\* _async_sync_stations, which follows in the same task, is left out.
FavIds == {"ST-1", "ST-2"}

\* sorted(...)
FavOrder == <<"ST-1", "ST-2">>

MaxUpdates == 2

\* the entities of a favorite station: three sensors, one button
CreatedKinds(platform) == IF platform = "sensor" THEN {"normal", "sprout", "station_id"} ELSE {"refresh"}

\* sensor.py, line 383, and button.py, line 158: the unique ids looked up
RemovedKinds(platform) ==
    IF platform = "sensor" THEN <<"normal", "sprout", "station_id", "distance_m">> ELSE <<"refresh">>

EntitiesOf(platform, ids) == {<<sid, kind>> : sid \in ids, kind \in CreatedKinds(platform)}

RECURSIVE RemovalOrder(_, _, _)
RemovalOrder(platform, removed, i) ==
    IF i > Len(FavOrder) THEN <<>>
    ELSE (IF FavOrder[i] \in removed
          THEN [k \in 1..Len(RemovedKinds(platform)) |-> <<FavOrder[i], RemovedKinds(platform)[k]>>]
          ELSE <<>>)
         \o RemovalOrder(platform, removed, i + 1)

\* the next unique id of the list that the registry knows
RECURSIVE NextPresent(_, _, _)
NextPresent(list, pos, entities) ==
    IF pos > Len(list) THEN pos
    ELSE IF list[pos] \in entities THEN pos
    ELSE NextPresent(list, pos + 1, entities)

NewSync(platform) == [platform |-> platform, pc |-> "start", prev |-> {}, curr |-> {}, pos |-> 1]

\* sensor.py, lines 244-264 and 312, button.py, lines 76-95 and 138: the
\* platforms after async_setup_entry (every favorite of a snapshot has a
\* station id and a name)
FavoriteSetups ==
    [fn : {"_async_sync_favorites"}, favorites : SUBSET FavIds, entities : {{}}, tracked : {<<>>},
     syncs : {<<>>}, updates : {0}, done : {FALSE}, twice : {{}}, overlapped : {FALSE}]

PlatformsSetUp(c) ==
    [c EXCEPT !.entities = EntitiesOf("sensor", c.favorites) \cup EntitiesOf("button", c.favorites),
              !.tracked = [platform \in {"sensor", "button"} |-> c.favorites]]

FavoriteCall(next) ==
    /\ call' = next
    /\ UNCHANGED <<scn, entry, api, co, data, lock, cyc, task, hist>>

\* sensor.py, lines 478-485, and button.py, lines 197-203: a published snapshot
\* calls both listeners, each creates its task; overlapped records an update
\* that arrived before the tasks of an earlier one had finished
_on_coordinator_update(favorites) ==
    /\ scn = "favorites"
    /\ call.updates < MaxUpdates
    /\ \A i \in 1..Len(call.syncs) : call.syncs[i].pc # "start"
    /\ FavoriteCall([call EXCEPT !.favorites = favorites,
                                 !.updates = @ + 1,
                                 !.overlapped = @ \/ \E i \in 1..Len(call.syncs) : call.syncs[i].pc # "done",
                                 !.syncs = @ \o <<NewSync("sensor"), NewSync("button")>>])

\* the removal loop from position pos on: up to the next await, or to the end
\* of the function, where the set of the platform becomes curr
SyncContinue(c, i, t, pos, list) ==
    IF NextPresent(list, pos, c.entities) > Len(list)
    THEN [c EXCEPT !.tracked[t.platform] = t.curr,
                   !.syncs[i] = [t EXCEPT !.pc = "done", !.pos = Len(list) + 1]]
    ELSE [c EXCEPT !.entities = @ \ {list[NextPresent(list, pos, c.entities)]},
                   !.syncs[i] = [t EXCEPT !.pc = "removing",
                                          !.pos = NextPresent(list, pos, c.entities) + 1]]

\* sensor.py, lines 348-376, and button.py, lines 140-155: prev, curr, and the
\* entities of the added stations; twice collects the entities created while
\* they exist
SyncAdded(c, i, t) ==
    SyncContinue([c EXCEPT !.entities = @ \cup EntitiesOf(t.platform, t.curr \ t.prev),
                           !.twice = @ \cup (EntitiesOf(t.platform, t.curr \ t.prev) \cap c.entities)],
                 i, t, 1, RemovalOrder(t.platform, t.prev \ t.curr, 1))

\* a task starts, in the order of creation
SyncStart(i) ==
    /\ scn = "favorites"
    /\ i \in 1..Len(call.syncs)
    /\ call.syncs[i].pc = "start"
    /\ \A j \in 1..(i - 1) : call.syncs[j].pc # "start"
    /\ FavoriteCall(SyncAdded(call, i, [call.syncs[i] EXCEPT !.prev = call.tracked[call.syncs[i].platform],
                                                              !.curr = call.favorites]))

\* a task goes on after an await of its removal loop
SyncResume(i) ==
    /\ scn = "favorites"
    /\ i \in 1..Len(call.syncs)
    /\ call.syncs[i].pc = "removing"
    /\ FavoriteCall(SyncContinue(call, i, call.syncs[i], call.syncs[i].pos,
                                 RemovalOrder(call.syncs[i].platform,
                                              call.syncs[i].prev \ call.syncs[i].curr, 1)))

InitFavorites ==
    /\ InitCall("favorites", {PlatformsSetUp(c) : c \in FavoriteSetups})

NextFavorites ==
    \/ \E favorites \in SUBSET FavIds : _on_coordinator_update(favorites)
    \/ \E i \in 1..(2 * MaxUpdates) : SyncStart(i)
    \/ \E i \in 1..(2 * MaxUpdates) : SyncResume(i)

SpecFavorites == InitFavorites /\ [][NextFavorites]_vars

\* _looks_like_login on its own, over the empty text and over pages with every
\* combination of the five markers, with and without a table of trips
Markers == {"data", "logout", "password", "spring", "form"}

MarkedPages ==
    {EmptyPage} \cup {Page(marks, rows, None, None, None, <<>>, None) : marks \in SUBSET Markers, rows \in {<<>>, <<T1>>}}

LoginPageCalls == [fn : {"_looks_like_login"}, html : MarkedPages, done : {FALSE}, result : {FALSE}]

LooksLikeLoginCall ==
    /\ call.fn = "_looks_like_login"
    /\ ~call.done
    /\ Returns(_looks_like_login(call.html))

InitLoginPage == InitCall("login_page", LoginPageCalls)

NextLoginPage == LooksLikeLoginCall

SpecLoginPage == InitLoginPage /\ [][NextLoginPage]_vars

\* ------------------------------------------ the cookie as the user pastes it
\* api.py, lines 17-40. A text is a sequence of tokens: the prefix "Cookie:",
\* the word "Cookie" (a prefix when a space follows), a space, a line break, a
\* double and a single quote, and a name=value pair.
CookieTokens == {"Cookie:", "Cookie", "SP", "LF", "DQ", "SQ", "a=b"}

MaxCookieLen == 4

Whitespace == {"SP", "LF"}

RECURSIVE LStrip(_, _)
LStrip(s, chars) == IF s # <<>> /\ Head(s) \in chars THEN LStrip(Tail(s), chars) ELSE s

RECURSIVE RStrip(_, _)
RStrip(s, chars) ==
    IF s # <<>> /\ s[Len(s)] \in chars THEN RStrip(SubSeq(s, 1, Len(s) - 1), chars) ELSE s

\* str.strip(chars)
StripChars(s, chars) == RStrip(LStrip(s, chars), chars)

\* line 18
Unquoted(raw) == StripChars(StripChars(StripChars(raw, Whitespace), {"DQ"}), {"SQ"})

\* v.replace("\r", "\n").split("\n"): the lines from position i on, cur the
\* line being read
RECURSIVE SplitLines(_, _, _)
SplitLines(s, i, cur) ==
    IF i > Len(s) THEN <<cur>>
    ELSE IF s[i] = "LF" THEN <<cur>> \o SplitLines(s, i + 1, <<>>)
    ELSE SplitLines(s, i + 1, Append(cur, s[i]))

\* line 21: the stripped lines that are not empty
RECURSIVE StrippedParts(_)
StrippedParts(lines) ==
    IF lines = <<>> THEN <<>>
    ELSE (IF StripChars(Head(lines), Whitespace) = <<>> THEN <<>>
          ELSE <<StripChars(Head(lines), Whitespace)>>)
         \o StrippedParts(Tail(lines))

StartsWithCookieColon(v) == v # <<>> /\ v[1] = "Cookie:"

StartsWithCookieSpace(v) == Len(v) >= 2 /\ v[1] = "Cookie" /\ v[2] = "SP"

RECURSIVE JoinParts(_)
JoinParts(parts) ==
    IF parts = <<>> THEN <<>>
    ELSE IF Len(parts) = 1 THEN parts[1]
    ELSE parts[1] \o <<"SP">> \o JoinParts(Tail(parts))

\* lines 22-31: the first line with "cookie:", else the first with "cookie ",
\* else all lines joined
CookieLine(parts) ==
    IF \E i \in 1..Len(parts) : StartsWithCookieColon(parts[i])
    THEN parts[CHOOSE i \in 1..Len(parts) :
                   /\ StartsWithCookieColon(parts[i])
                   /\ \A j \in 1..(i - 1) : ~StartsWithCookieColon(parts[j])]
    ELSE IF \E i \in 1..Len(parts) : StartsWithCookieSpace(parts[i])
    THEN parts[CHOOSE i \in 1..Len(parts) :
                   /\ StartsWithCookieSpace(parts[i])
                   /\ \A j \in 1..(i - 1) : ~StartsWithCookieSpace(parts[j])]
    ELSE JoinParts(parts)

\* line 32: " ".join(v.split())
RECURSIVE Squeezed(_)
Squeezed(s) ==
    IF s = <<>> THEN <<>>
    ELSE IF Head(s) \in Whitespace
    THEN (IF Tail(s) # <<>> /\ Head(Tail(s)) \in Whitespace THEN <<>> ELSE <<"SP">>) \o Squeezed(Tail(s))
    ELSE <<Head(s)>> \o Squeezed(Tail(s))

OneLine(v) ==
    IF v = <<>> THEN v
    ELSE Squeezed(StripChars(IF \E i \in 1..Len(v) : v[i] = "LF"
                             THEN CookieLine(StrippedParts(SplitLines(v, 1, <<>>)))
                             ELSE v, Whitespace))

\* lines 33-35
WithoutCookieSpace(v) ==
    IF StartsWithCookieSpace(v) THEN StripChars(SubSeq(v, 3, Len(v)), Whitespace) ELSE v

\* lines 36-38
WithoutCookieColon(v) ==
    IF StartsWithCookieColon(v) THEN StripChars(Tail(v), Whitespace) ELSE v

_normalize_cookie(raw) == WithoutCookieColon(WithoutCookieSpace(OneLine(Unquoted(raw))))

RECURSIVE TextsOf(_)
TextsOf(n) == IF n = 0 THEN {<<>>} ELSE TextsOf(n - 1) \cup [1..n -> CookieTokens]

NormalizeCalls ==
    [fn : {"_normalize_cookie"}, raw : TextsOf(MaxCookieLen), done : {FALSE},
     result : {[once |-> <<>>, twice |-> <<>>]}]

NormalizeCookieCall ==
    /\ call.fn = "_normalize_cookie"
    /\ ~call.done
    /\ Returns([once |-> _normalize_cookie(call.raw),
                twice |-> _normalize_cookie(_normalize_cookie(call.raw))])

InitNormalize == InitCall("normalize", NormalizeCalls)

NextNormalize == NormalizeCookieCall

SpecNormalize == InitNormalize /\ [][NextNormalize]_vars

\* ------------------------------------------ entities of the monitored stations
\* sensor.py and button.py: the entities of the stations of stations_by_id are
\* created by async_setup_entry and, after each update, by
\* _async_sync_stations, which keeps its set in _spb_station_ids
\* (_spb_station_ids_btn); neither attribute is assigned at setup, so the
\* first task reads set(). Distance sensors are disabled.
MonitoredIds == {"ST-1", "ST-2"}

\* the entities that exist once for all stations carry this id
Shared == "all"

StationKinds(platform) ==
    IF platform = "sensor" THEN {"bikes_total", "bikes_general", "bikes_sprout", "bikes_repair", "station_id"}
    ELSE {"station_refresh"}

SharedKinds(platform) ==
    IF platform = "sensor" THEN {"nearby_total_bikes", "nearby_recommended_bikes", "nearby_station_list"}
    ELSE {"station_refresh_all"}

\* sensor.py, lines 449-456 and 466-468, button.py, lines 185 and 191
StationRemovedKinds(platform) ==
    IF platform = "sensor"
    THEN <<"bikes_total", "bikes_general", "bikes_sprout", "bikes_repair", "station_id", "distance_m">>
    ELSE <<"station_refresh">>

SharedRemovedKinds(platform) ==
    IF platform = "sensor" THEN <<"nearby_total_bikes", "nearby_recommended_bikes", "nearby_station_list">>
    ELSE <<"station_refresh_all">>

\* the entities created for the stations ids, with the shared ones when the
\* flag holds
StationEntities(platform, ids, shared) ==
    {<<sid, kind>> : sid \in ids, kind \in StationKinds(platform)}
    \cup (IF shared THEN {<<Shared, kind>> : kind \in SharedKinds(platform)} ELSE {})

AllStationEntities ==
    StationEntities("sensor", MonitoredIds, TRUE) \cup StationEntities("button", MonitoredIds, TRUE)

RECURSIVE StationRemovalOrder(_, _, _)
StationRemovalOrder(platform, removed, i) ==
    IF i > Len(FavOrder) THEN <<>>
    ELSE (IF FavOrder[i] \in removed
          THEN [k \in 1..Len(StationRemovedKinds(platform)) |-> <<FavOrder[i], StationRemovedKinds(platform)[k]>>]
          ELSE <<>>)
         \o StationRemovalOrder(platform, removed, i + 1)

\* the awaited removals of a task in their order: the stations removed, then
\* the shared entities when no station is left
StationRemovals(t) ==
    StationRemovalOrder(t.platform, t.prev \ t.curr, 1)
    \o (IF t.prev # {} /\ t.curr = {}
        THEN [k \in 1..Len(SharedRemovedKinds(t.platform)) |-> <<Shared, SharedRemovedKinds(t.platform)[k]>>]
        ELSE <<>>)

\* created counts, for each entity, its creations since its station came
\* into stations_by_id
Counted(created, new) == [e \in AllStationEntities |-> IF e \in new THEN created[e] + 1 ELSE created[e]]

\* sensor.py, lines 224-248 and 264, button.py, lines 86-95: the platforms
\* after async_setup_entry
StationSetups ==
    [fn : {"_async_sync_stations"}, stations : SUBSET MonitoredIds, entities : {{}}, tracked : {<<>>},
     created : {<<>>}, syncs : {<<>>}, updates : {0}, done : {FALSE}]

StationPlatformsSetUp(c) ==
    [c EXCEPT !.entities = StationEntities("sensor", c.stations, c.stations # {})
                           \cup StationEntities("button", c.stations, c.stations # {}),
              !.tracked = [platform \in {"sensor", "button"} |-> {}],
              !.created = [e \in AllStationEntities |->
                              IF e \in StationEntities("sensor", c.stations, c.stations # {})
                                        \cup StationEntities("button", c.stations, c.stations # {})
                              THEN 1 ELSE 0]]

\* an update with the stations the cycle resolved: both listeners create
\* their task
StationsUpdate(stations) ==
    /\ scn = "station_entities"
    /\ call.updates < MaxUpdates
    /\ \A i \in 1..Len(call.syncs) : call.syncs[i].pc # "start"
    /\ FavoriteCall([call EXCEPT !.stations = stations,
                                 !.updates = @ + 1,
                                 !.created = [e \in AllStationEntities |->
                                                 IF e[1] \in call.stations \ stations THEN 0 ELSE @[e]],
                                 !.syncs = @ \o <<NewSync("sensor"), NewSync("button")>>])

\* the removals from position pos on: up to the next await, or to the end of
\* the function, where the set of the platform becomes curr
StationSyncContinue(c, i, t, pos, list) ==
    IF NextPresent(list, pos, c.entities) > Len(list)
    THEN [c EXCEPT !.tracked[t.platform] = t.curr,
                   !.syncs[i] = [t EXCEPT !.pc = "done", !.pos = Len(list) + 1]]
    ELSE [c EXCEPT !.entities = @ \ {list[NextPresent(list, pos, c.entities)]},
                   !.syncs[i] = [t EXCEPT !.pc = "removing",
                                          !.pos = NextPresent(list, pos, c.entities) + 1]]

\* sensor.py, lines 394-436, and button.py, lines 164-181: prev, curr, the
\* shared entities when prev is empty, the entities of the added stations
StationSyncAdded(c, i, t) ==
    StationSyncContinue(
        [c EXCEPT !.entities = @ \cup StationEntities(t.platform, t.curr \ t.prev, t.prev = {} /\ t.curr # {}),
                  !.created = Counted(@, StationEntities(t.platform, t.curr \ t.prev,
                                                         t.prev = {} /\ t.curr # {}))],
        i, t, 1, StationRemovals(t))

StationSyncStart(i) ==
    /\ scn = "station_entities"
    /\ i \in 1..Len(call.syncs)
    /\ call.syncs[i].pc = "start"
    /\ \A j \in 1..(i - 1) : call.syncs[j].pc # "start"
    /\ FavoriteCall(StationSyncAdded(call, i, [call.syncs[i] EXCEPT
                                                  !.prev = call.tracked[call.syncs[i].platform],
                                                  !.curr = call.stations]))

StationSyncResume(i) ==
    /\ scn = "station_entities"
    /\ i \in 1..Len(call.syncs)
    /\ call.syncs[i].pc = "removing"
    /\ FavoriteCall(StationSyncContinue(call, i, call.syncs[i], call.syncs[i].pos,
                                        StationRemovals(call.syncs[i])))

InitStationEntities == InitCall("station_entities", {StationPlatformsSetUp(c) : c \in StationSetups})

NextStationEntities ==
    \/ \E stations \in SUBSET MonitoredIds : StationsUpdate(stations)
    \/ \E i \in 1..(2 * MaxUpdates) : StationSyncStart(i)
    \/ \E i \in 1..(2 * MaxUpdates) : StationSyncResume(i)

SpecStationEntities == InitStationEntities /\ [][NextStationEntities]_vars

\* a Station built on its own from one payload: by _station_from_status of
\* coordinator.py and of modes/cookie, and by _row_to_station of the API mode.
\* A counter is <<n>> for a value that reads as the integer n and <<>> for one
\* that is absent or does not read as an integer.
Counts == {<<>>, <<0 - 2>>, <<0>>, <<3>>}

ExtraCounts == {<<>>, <<0>>, <<2>>}

KeptCounts == {<<>>, <<1>>}

Payloads ==
    {[Status("ST-1", "101", 10, 11, tot, gen, teen, None)
        EXCEPT !.parkingQRBikeCnt = qr, !.parkingELECBikeCnt = elec, !.bikes_total = btot,
               !.bikes_general = bgen, !.bikes_sprout = bspr] :
        tot \in Counts, gen \in Counts, teen \in Counts, btot \in Counts,
        qr \in ExtraCounts, elec \in ExtraCounts, bgen \in KeptCounts, bspr \in KeptCounts}

StationCalls ==
    [fn : {"_station_from_status", "cookie._station_from_status", "_row_to_station"},
     status : Payloads, done : {FALSE}, result : {NoStation}]

StationFromStatusCall ==
    /\ call.fn = "_station_from_status"
    /\ ~call.done
    /\ Returns(_station_from_status(call.status, None, None))

CookieStationFromStatusCall ==
    /\ call.fn = "cookie._station_from_status"
    /\ ~call.done
    /\ Returns(cookie_station_from_status(call.status, None, None))

RowToStationCall ==
    /\ call.fn = "_row_to_station"
    /\ ~call.done
    /\ Returns(_row_to_station(call.status))

InitStation == InitCall("station", StationCalls)

NextStation ==
    \/ StationFromStatusCall
    \/ CookieStationFromStatusCall
    \/ RowToStationCall

SpecStation == InitStation /\ [][NextStation]_vars

\* the nearby list computed on its own: by _compute_nearby from the stations
\* a cycle left in stations_by_id, by _compute_nearby_from_statuses from a
\* realtime list, and by _compute_nearby of the API mode, whose radius,
\* minimum and maximum are fixed (modes/api/__init__.py, lines 323-325)
NearA == Status("ST-A", "1", 10, 12, <<5>>, <<>>, <<>>, None)

NearB == Status("ST-B", "2", 10, 11, <<5>>, <<>>, <<>>, None)

NearC == Status("ST-C", "3", 11, 12, <<8>>, <<>>, <<>>, None)

NearD == Status("ST-D", "4", 11, 10, <<0>>, <<>>, <<>>, None)

NearE == Status("ST-E", "5", 10, 16, <<7>>, <<>>, <<>>, None)

\* a station whose coordinates are unknown
NearF == Status("ST-F", "6", 0, 0, <<3>>, <<>>, <<>>, None)

StatusLists ==
    {<<>>, <<NearA, NearB, NearC>>, <<NearC, NearA, NearB>>, <<NearB, NearD, NearE>>, <<NearA, NearF, NearE>>,
     <<NearE, NearB>>, <<NearD>>, <<NearA, NearB, NearC, NearD, NearE, NearF>>,
     <<NearF, NearE, NearD, NearC, NearB, NearA>>}

NoNearby == [nearby |-> <<>>, nearby_total_bikes |-> 0, nearby_recommended_bikes |-> 0,
             candidates |-> <<>>, known |-> <<>>]

NearbyCalls ==
    [fn : {"_compute_nearby", "_compute_nearby_from_statuses"}, statuses : StatusLists,
     radius_m : {0, 100, 300}, min_bikes : {0, 1, 6}, max_results : {0, 1, 2},
     done : {FALSE}, result : {NoNearby}]
    \cup [fn : {"api._compute_nearby"}, statuses : StatusLists,
          radius_m : {DEFAULT_RADIUS_M}, min_bikes : {1}, max_results : {0},
          done : {FALSE}, result : {NoNearby}]

RECURSIVE StationsOf(_, _)
StationsOf(statuses, acc) ==
    IF statuses = <<>> THEN acc
    ELSE StationsOf(Tail(statuses),
                    PutStation(acc, Head(statuses).stationId, _station_from_status(Head(statuses), None, None)))

RECURSIVE ApiStationsOf(_, _)
ApiStationsOf(rows, acc) ==
    IF rows = <<>> THEN acc
    ELSE ApiStationsOf(Tail(rows), PutStation(acc, Head(rows).stationId, _row_to_station(Head(rows))))

Configured(c) ==
    [c EXCEPT !.radius_m = call.radius_m, !.min_bikes = call.min_bikes, !.max_results = call.max_results]

\* the coordinator after the computation; candidates is the local list after
\* its sort, known the stations the computation looked at
NearbyReturns(c, candidates, known) ==
    /\ co' = c
    /\ call' = [call EXCEPT !.done = TRUE,
                            !.result = [nearby |-> c.nearby, nearby_total_bikes |-> c.nearby_total_bikes,
                                        nearby_recommended_bikes |-> c.nearby_recommended_bikes,
                                        candidates |-> candidates, known |-> known]]
    /\ UNCHANGED <<scn, entry, api, data, lock, cyc, task, hist>>

ComputeNearbyCall ==
    /\ call.fn = "_compute_nearby"
    /\ ~call.done
    /\ \E c \in {[Configured(co) EXCEPT !.stations_by_id = StationsOf(call.statuses, <<>>)]} :
         NearbyReturns(_compute_nearby(c),
                       SortCandidates(Candidates(_compute_center(c), Values(c.stations_by_id))),
                       Values(c.stations_by_id))

ComputeNearbyFromStatusesCall ==
    /\ call.fn = "_compute_nearby_from_statuses"
    /\ ~call.done
    /\ \E c \in {Configured(co)}, sts \in {[i \in 1..Len(call.statuses) |->
                                                _station_from_status(call.statuses[i], None, None)]} :
         NearbyReturns(_compute_nearby_from_statuses(c, call.statuses),
                       SortCandidates(Candidates(_compute_center(c), sts)), sts)

ApiComputeNearbyCall ==
    /\ call.fn = "api._compute_nearby"
    /\ ~call.done
    /\ \E c \in {[Configured(co) EXCEPT !.stations_by_id = ApiStationsOf(call.statuses, <<>>)]} :
         NearbyReturns(ApiComputeNearby(c),
                       SortCandidates(ApiCandidates(_compute_center(c), Values(c.stations_by_id))),
                       Values(c.stations_by_id))

InitNearby == InitCall("nearby", NearbyCalls)

NextNearby ==
    \/ ComputeNearbyCall
    \/ ComputeNearbyFromStatusesCall
    \/ ApiComputeNearbyCall

SpecNearby == InitNearby /\ [][NextNearby]_vars

\* fetch_all over every source of three pages
SourcePages == 1..3

PageAnswers == [count : 0..2, total : {1, 5}, kind : {"ok", "flaky", "down", "auth"}]

NoRows == [raised |-> FALSE, exc |-> None, rows |-> <<>>, log |-> <<>>]

\* the cycle of the API mode always asks for max_pages pages of one size, with
\* DEFAULT_RETRIES retries (modes/api/coordinator.py, line 226)
PagingCalls ==
    [fn : {"fetch_all"}, src : [SourcePages -> PageAnswers], page_size : {1, 2}, max_pages : {0, 2, 3},
     retries : {0, DEFAULT_RETRIES}, done : {FALSE}, result : {NoRows}]
    \cup [fn : {"_async_update_data"}, src : [SourcePages -> PageAnswers], page_size : {2}, max_pages : {3},
          retries : {DEFAULT_RETRIES}, done : {FALSE}, result : {NoRows}]

FetchAllCall ==
    /\ call.fn = "fetch_all"
    /\ ~call.done
    /\ Returns(fetch_all(call.src, call.page_size, call.max_pages, call.retries))

ApiUpdateCall ==
    /\ call.fn = "_async_update_data"
    /\ ~call.done
    /\ Returns(UpdateFailedOf(fetch_all(call.src, call.page_size, call.max_pages, call.retries)))

InitPaging == InitCall("paging", PagingCalls)

NextPaging ==
    \/ FetchAllCall
    \/ ApiUpdateCall

SpecPaging == InitPaging /\ [][NextPaging]_vars

\* the request helpers and fetch_rent_status called one after the other on
\* one api object
MaxRequests == 3

HelperNames == {"_get_text", "_get_json", "_post_text", "_post_json"}

MethodOf(fn) == IF fn \in {"_get_text", "_get_json"} THEN "GET" ELSE "POST"

RequestPaths == {PATH_RENT_STATUS, PATH_USE_HISTORY}

\* an object, a list, text that is no JSON, each below and above 400, and no
\* response at all
RequestOutcomes ==
    {Resp(HttpOk, OkRent), Resp(HttpFail, OkRent), RespNonJson(HttpOk, "list"), RespNonJson(HttpFail, "list"),
     RespNonJson(HttpOk, "unparseable"), RespFail(HttpFail), NetFail("timeout")}

\* the text helpers return the body as it is
OutcomesOf(fn) ==
    IF fn \in {"_get_json", "_post_json"} THEN RequestOutcomes
    ELSE {Resp(HttpOk, OkRent), Resp(HttpFail, OkRent), NetFail("timeout")}

Helper(fn, a, url, o) ==
    CASE fn = "_get_text" -> GetText(a, url, o)
      [] fn = "_get_json" -> GetJson(a, url, o)
      [] fn = "_post_text" -> PostText(a, url, o)
      [] fn = "_post_json" -> PostJson(a, url, o)

NoRequest == [fn |-> None, url |-> None, o1 |-> NetFail("timeout"), o2 |-> NetFail("timeout"),
              raised |-> FALSE, exc |-> None, body |-> <<>>, n |-> 0]

Answered(fn, url, o1, o2, r) ==
    /\ call' = [fn |-> fn, url |-> url, o1 |-> o1, o2 |-> o2, raised |-> r.raised, exc |-> r.exc,
                body |-> IF r.raised THEN <<>> ELSE <<r.body>>, n |-> call.n + 1]
    /\ api' = r.api
    /\ UNCHANGED <<scn, entry, co, data, lock, cyc, task, hist>>

HelperCall ==
    /\ call.n < MaxRequests
    /\ \E fn \in HelperNames, url \in RequestPaths :
       \E o \in OutcomesOf(fn) :
         Answered(fn, url, o, o, Helper(fn, [api EXCEPT !.log = <<>>], url, o))

RentStatusCall ==
    /\ call.n < MaxRequests
    /\ \E o1 \in RequestOutcomes, o2 \in RequestOutcomes :
         Answered("fetch_rent_status", PATH_RENT_STATUS, o1, o2,
                  fetch_rent_status([api EXCEPT !.log = <<>>], o1, o2))

InitRequests == InitCall("requests", {NoRequest})

NextRequests ==
    \/ HelperCall
    \/ RentStatusCall

SpecRequests == InitRequests /\ [][NextRequests]_vars

\* ------------------------------------------------------------ properties
Count(seq, x) == Cardinality({i \in 1..Len(seq) : seq[i] = x})

NonBlank(v) == v \notin {None, "", " "}

\* a coroutine that has completed its first fetch and has not yet published
CycleInFlight == cyc.pc \notin {"idle", "rent_status"}

TaskInFlight(t) ==
    task[t].pc \in {"ens_login", "ens_retry", "fav_realtime", "mp_realtime", "mp_voucher", "mp_left",
                    "uh_base", "uh_period", "uh_route"}

\* C1: at any time at most one of the scheduled cycle and the five refreshes
\* is between its first network fetch and its snapshot publication.
C1_OneOperationInFlight ==
    Cardinality({t \in TaskIds : TaskInFlight(t)}) + (IF CycleInFlight THEN 1 ELSE 0) <= 1

OtherStatus(fs, sid) == SelectSeq(fs, LAMBDA e : e.station_id # sid)

\* C2: when async_refresh_favorite_station or async_refresh_station publishes
\* after a publication of the scheduled cycle, every key it does not target
\* (periods, my_page, favorites, rent_status, the other favorite_status
\* entries) keeps the value of the snapshot it replaces.
C2_RefreshKeepsCycleValues ==
    [][\A t \in TaskIds :
          (/\ task[t].pc \in {"fav_realtime", "st_realtime"}
           /\ task'[t].pc = "idle"
           /\ task'[t].outcome = "published"
           /\ hist.last_pub = "cycle")
          => /\ data'.periods = data.periods
             /\ data'.my_page = data.my_page
             /\ data'.favorites = data.favorites
             /\ data'.rent_status = data.rent_status
             /\ OtherStatus(data'.favorite_status, task[t].arg)
                  = OtherStatus(data.favorite_status, task[t].arg)]_vars

\* the session check of the ended cycle was explicitly False and no login
\* succeeded: the credentials are missing or login() raised
SessionLost ==
    /\ cyc.pc = "idle"
    /\ cyc.first_ok = "False"
    /\ cyc.username = "" \/ cyc.password = "" \/ cyc.login_res = "raised"

\* C3: a cycle whose session check is explicitly False and that has no usable
\* credentials or whose re-login fails returns, without raising, a snapshot
\* with a non-null error, empty periods, favorites and favorite_status and
\* validation_status "login_page", and issues no further fetch.
C3_DegradedSnapshot ==
    SessionLost =>
        /\ cyc.outcome = "degraded_session"
        /\ cyc.ret.error # None
        /\ cyc.ret.periods = NoPayload
        /\ cyc.ret.favorites = <<>>
        /\ cyc.ret.favorite_status = <<>>
        /\ cyc.ret.validation_status = "login_page"
        /\ cyc.trace \in {<<"rent_status">>, <<"rent_status", "login">>}

C3_Witness ==
    /\ SessionLost
    /\ cyc.login_res = "raised"
    /\ data = cyc.ret
    /\ data.error = LOGIN_PAGE_ERROR

\* C4: in the scheduled cycle and in _ensure_login, login() is called only
\* after a rent-status check that evaluated to False and with a non-blank
\* stored username and password, and at most once per run.
C4_LoginOnlyWhenLoggedOut ==
    /\ (cyc.pc = "login" \/ Count(cyc.trace, "login") > 0)
          => cyc.first_ok = "False" /\ NonBlank(entry.username) /\ NonBlank(entry.password)
    /\ Count(cyc.trace, "login") <= 1
    /\ \A t \in TaskIds :
          /\ (task[t].pc = "ens_login" \/ task[t].logins > 0)
                => task[t].first_ok = "False" /\ NonBlank(entry.username) /\ NonBlank(entry.password)
          /\ task[t].logins <= 1

C4_Witness ==
    /\ Count(cyc.trace, "login") = 1
    /\ task["r1"].logins = 1
    /\ task["r1"].pc = "idle"

\* C5: when login() succeeds the new cookie is written to the config entry in
\* the step that ends login(), before the retry of the rent-status check, and
\* the check is retried exactly once in that cycle.
C5_PersistThenRetryOnce ==
    [][/\ (cyc.pc = "login" /\ cyc'.login_res = "ok")
          => /\ entry'.data_cookie = cyc'.new_cookie
             /\ cyc'.pc = "retry_rent"
             /\ cyc'.trace = <<"rent_status", "login", "persist">>
       /\ (cyc.pc = "retry_rent" /\ cyc' # cyc)
          => /\ cyc'.pc # "retry_rent"
             /\ SubSeq(cyc'.trace, 1, 4) = <<"rent_status", "login", "persist", "rent_status">>
       /\ (cyc.login_res = "ok" /\ cyc'.login_res = "ok")
          => Count(cyc'.trace, "rent_status") = Count(cyc.trace, "rent_status")
                + (IF cyc.pc = "retry_rent" /\ cyc' # cyc THEN 1 ELSE 0)]_vars

C5_Witness ==
    /\ cyc.pc = "idle"
    /\ cyc.login_res = "ok"
    /\ entry.data_cookie = cyc.new_cookie
    /\ Count(cyc.trace, "rent_status") = 2

\* C6: the cycle that follows a cycle in which re-login succeeded and the new
\* cookie was persisted sends its requests with that cookie.
C6_NextCycleUsesNewCookie ==
    [][(/\ cyc.pc = "idle"
        /\ cyc'.pc = "rent_status"
        /\ cyc.login_res = "ok"
        /\ hist.persisted = cyc.new_cookie)
       => api'.cookie = cyc.new_cookie]_vars

\* C7: a cycle in which login() returned a new cookie does not return the
\* degraded snapshot from the session stage: it goes on to the auxiliary and
\* usage-history fetches.
C7_ContinuesAfterRelogin ==
    cyc.login_res = "ok" =>
        /\ cyc.outcome # "degraded_session"
        /\ cyc.pc = "idle" => Count(cyc.trace, "user_status") = 1 /\ Count(cyc.trace, "history") = 1

\* the first rent-status check of the cycle raised or its payload has no
\* loginYn value
Indeterminate ==
    /\ cyc.trace # <<>>
    /\ cyc.first_rent.error # None \/ ~Truthy(cyc.first_rent.loginYn)

\* C8: with an indeterminate session check the cycle neither calls login()
\* nor returns the degraded snapshot of the session stage; it fetches the
\* user status, the reconsent status and the usage history.
C8_IndeterminateProceeds ==
    Indeterminate =>
        /\ Count(cyc.trace, "login") = 0
        /\ cyc.pc \notin {"login", "retry_rent"}
        /\ cyc.outcome # "degraded_session"
        /\ Len(cyc.trace) >= 2 => cyc.trace[2] = "user_status"
        /\ Len(cyc.trace) >= 3 => cyc.trace[3] = "reconsent"
        /\ Len(cyc.trace) >= 4 => cyc.trace[4] = "history"
        /\ cyc.pc = "idle" => Len(cyc.trace) >= 4

C8_Witness ==
    /\ Indeterminate
    /\ cyc.first_rent.error # None
    /\ cyc.pc = "idle"
    /\ cyc.outcome = "published"

Failed(what) == {i \in 1..Len(cyc.failed) : cyc.failed[i].fetch = what}

\* the slot of the returned snapshot: the error text of the fetch when it
\* raised, else the one value the site answers with
SlotOf(what, slot, value) ==
    IF Failed(what) = {} THEN slot = value
    ELSE \A i \in Failed(what) : slot.error = cyc.failed[i].text

\* C9: a failure of fetch_user_status, fetch_reconsent_status or
\* fetch_voucher_info never ends the cycle; the published snapshot carries the
\* exception text in the slot of the failed fetch, and every other slot has
\* the value it has when that fetch succeeds.
C9_AuxiliaryFailuresIsolated ==
    (cyc.pc = "idle" /\ cyc.outcome # "none") =>
        /\ cyc.outcome \in {"published", "failed"}
        /\ cyc.outcome = "failed" => cyc.trace[Len(cyc.trace)] \in {"history", "favorites", "left_page"}
        /\ cyc.outcome = "published" =>
              /\ SlotOf("user_status", cyc.ret.user_status, Dict("user1"))
              /\ SlotOf("reconsent", cyc.ret.reconsent_status, Dict("reconsent1"))
              /\ \A i \in Failed("voucher") : cyc.ret.my_page.error = cyc.failed[i].text
              /\ cyc.ret.error = None
              /\ cyc.ret.validation_status = "ok"
              /\ cyc.ret.last_request.error = None
              /\ cyc.ret.rent_status = OkRent
              /\ cyc.ret.favorites = <<F1>>
              /\ cyc.ret.periods.history = <<T1>>
              /\ cyc.ret.periods.kcal = "kcal1"

C9_Witness ==
    /\ cyc.pc = "idle"
    /\ cyc.outcome = "published"
    /\ data = cyc.ret
    /\ Failed("user_status") # {}
    /\ Failed("reconsent") # {}
    /\ Failed("voucher") # {}

\* C10: an exception of the usage-history, favorites or left-nav fetch ends
\* the cycle with UpdateFailed: nothing is published, validation_status is
\* "error" and last_error is the text of the exception.
C10_UnguardedFailure ==
    [][(/\ cyc.pc \in {"history", "favorites", "left_page"}
        /\ cyc'.pc = "idle"
        /\ cyc'.outcome = "failed")
       => /\ data' = data
          /\ co'.validation_status = "error"
          /\ co'.last_error = cyc'.exc]_vars

\* the call merged a page without trips into a snapshot that holds a trip, a
\* kcal value and a period start
MergedEmptyFetch ==
    /\ call.fn = "_merge_latest_history"
    /\ call.done
    /\ call.html.rows = <<>>
    /\ call.prev.history # <<>>
    /\ Truthy(call.prev.kcal)
    /\ Truthy(call.prev.period_start)

\* C11 as stated: after such a merge history, last, kcal, period_start and
\* period_end are those of the previous snapshot, whatever else the fetched
\* page holds.
C11_MergeEqualsPrevious ==
    MergedEmptyFetch =>
        /\ call.result.history = call.prev.history
        /\ call.result.last = call.prev.last
        /\ call.result.kcal = call.prev.kcal
        /\ call.result.period_start = call.prev.period_start
        /\ call.result.period_end = call.prev.period_end

PreferCurrent(current, previous) == IF Truthy(current) THEN current ELSE previous

\* C11 amended: after such a merge history and last are those of the previous
\* snapshot, and each of kcal, period_start and period_end is the value of
\* the fetched page when the page has one, else that of the previous snapshot.
C11_MergeKeepsPrevious ==
    MergedEmptyFetch =>
        /\ call.result.history = call.prev.history
        /\ call.result.last = call.prev.last
        /\ call.result.kcal = PreferCurrent(call.html.kcal, call.prev.kcal)
        /\ call.result.period_start = PreferCurrent(call.html.start, call.prev.period_start)
        /\ call.result.period_end = PreferCurrent(call.html.end, call.prev.period_end)

C11_Witness ==
    /\ MergedEmptyFetch
    /\ call.html.kcal = None
    /\ call.html.start = "2026-02-01"
    /\ call.result.kcal = "kcal0"
    /\ call.result.history = <<T2>>

\* C12: once a published snapshot has held a latest trip, the snapshot
\* published by a later cycle whose usage-history page had no rows holds that
\* trip, whatever cycles (degraded, failed) came in between.
C12_HistoryNeverRegresses ==
    (/\ cyc.pc = "idle"
     /\ cyc.outcome = "published"
     /\ cyc.rows = <<>>
     /\ hist.trip # NoTrip)
    => /\ cyc.ret.periods.history = <<hist.trip>>
       /\ cyc.ret.periods.last = hist.trip

\* C13: when the previous snapshot holds a ticket expiry and the cycle gets
\* none from the realtime list, the voucher endpoint and the left-nav page,
\* the snapshot it publishes keeps the previous expiry in
\* my_page.voucher_end_dttm and in ticket_expiry.
C13_TicketExpiryKept ==
    [][(/\ cyc.pc = "left_page"
        /\ cyc'.pc = "idle"
        /\ cyc'.outcome = "published"
        /\ cyc'.left_expiry = None
        /\ Truthy(data.my_page.voucher_end_dttm))
       => /\ data'.my_page.voucher_end_dttm = data.my_page.voucher_end_dttm
          /\ data'.ticket_expiry = data.my_page.voucher_end_dttm]_vars

\* a step in which a scheduled cycle publishes a snapshot that is not degraded
CyclePublishes == cyc.pc # "idle" /\ cyc'.pc = "idle" /\ cyc'.outcome = "published"

\* a step in which async_refresh_my_page publishes
MyPagePublishes ==
    /\ task["r1"].kind = "my_page"
    /\ task["r1"].pc # "idle"
    /\ task'["r1"].pc = "idle"
    /\ task'["r1"].outcome = "published"

\* the answer of the voucher-info fetch of the run that publishes
PublishedVoucherPayload == IF CyclePublishes THEN cyc'.voucher_payload ELSE task'["r1"].voucher_payload

PreviousRecords(prev, raw) ==
    LET byid == {prev[i].st : i \in {j \in 1..Len(prev) : IsStationId(raw) /\ prev[j].key = raw}}
        byno == {prev[i].st : i \in {j \in 1..Len(prev) : ~IsStationId(raw) /\ prev[j].st.station_no = raw}}
        byraw == {prev[i].st : i \in {j \in 1..Len(prev) : raw \in {prev[j].st.station_id, prev[j].st.station_no}}}
    IN IF byid # {} THEN byid ELSE IF byno # {} THEN byno ELSE byraw

\* the realtime list has no item for the identifier
Missing(realtime_list, raw) ==
    \A i \in 1..Len(realtime_list) :
        IF IsStationId(raw) THEN realtime_list[i].stationId # raw ELSE realtime_list[i].stationNo # raw

\* C15: a configured station identifier that had a Station after the previous
\* cycle, and that the realtime list of this cycle lacks (or the fetch failed),
\* has that previous Station in stations_by_id after this cycle.
C15_StationRetained ==
    [][CyclePublishes =>
          \A k \in 1..Len(co.station_ids) :
              (/\ PreviousRecords(co.stations_by_id, co.station_ids[k]) # {}
               /\ Missing(cyc'.realtime_list, co.station_ids[k]))
              => \E st \in PreviousRecords(co.stations_by_id, co.station_ids[k]) :
                    \E i \in 1..Len(co'.stations_by_id) : co'.stations_by_id[i].st = st]_vars

\* the second cycle published after a failed realtime fetch and still holds a
\* station of the first
C15_Witness ==
    /\ scn = "stations"
    /\ cyc.pc = "idle"
    /\ cyc.outcome = "published"
    /\ hist.cycles = 2
    /\ cyc.realtime_list = <<>>
    /\ Failed("realtime") # {}
    /\ \E i \in 1..Len(co.stations_by_id) : co.stations_by_id[i].st.station_no = "102"

\* C16: a published period payload lists at most one trip, and last is that
\* trip whenever one is listed.
C16_SingleLatestTrip ==
    data.periods.present =>
        /\ Len(data.periods.history) <= 1
        /\ data.periods.history # <<>> => data.periods.last = Head(data.periods.history)

\* the button published the latest trip of a page that lists two
C16_Witness ==
    /\ scn = "trips"
    /\ hist.last_pub = "r1"
    /\ task["r1"].outcome = "published"
    /\ data.periods.kcal = "kcal2"
    /\ data.periods.history = <<T2>>
    /\ hist.cycles = 1

\* C17: after a request helper raised for a status of 400 or more or for a
\* failure without a response, last_meta names the method and the
\* URL of that request and last_error is not null, whatever was requested
\* before.
C17_FailureRecorded ==
    (call.fn \in HelperNames /\ call.raised /\ (call.o1.kind # "resp" \/ call.o1.status >= 400)) =>
        /\ api.last_meta.method = MethodOf(call.fn)
        /\ api.last_meta.url = call.url
        /\ api.last_error # None

\* a GET of a JSON helper that returns
Succeeds(o) == o.kind = "resp" /\ o.status < 400 /\ o.json = "obj"

\* str() of what a JSON helper raises for an exchange that does not succeed
ExceptionOf(o) ==
    IF o.kind # "resp" THEN o.text
    ELSE IF o.status >= 400 THEN HttpExcText(o.status)
    ELSE "non_json_response"

\* C18: fetch_rent_status requests the primary path first and the alternate
\* path only after the primary raised, returns the first success, and raises
\* only when both fail, with the exception of the alternate path.
C18_RentStatusFallback ==
    call.fn = "fetch_rent_status" =>
        /\ api.log[1].url = PATH_RENT_STATUS
        /\ Succeeds(call.o1) => Len(api.log) = 1 /\ ~call.raised /\ call.body = call.o1.body
        /\ ~Succeeds(call.o1) => Len(api.log) = 2 /\ api.log[2].url = PATH_RENT_STATUS_ALT
        /\ (~Succeeds(call.o1) /\ Succeeds(call.o2)) => ~call.raised /\ call.body = call.o2.body
        /\ call.raised <=> (~Succeeds(call.o1) /\ ~Succeeds(call.o2))
        /\ call.raised => call.exc = ExceptionOf(call.o2)

\* both paths failed, each in its own way
C18_Witness ==
    /\ call.fn = "fetch_rent_status"
    /\ call.raised
    /\ call.o1.kind = "net"
    /\ call.o2 = Resp(HttpFail, OkRent)
    /\ call.exc = HttpExcText(HttpFail)
    /\ Len(api.log) = 2

\* C19 as stated: a JSON helper whose response body is no JSON object raises
\* 'non_json_response', whatever the status.
C19_NonJsonAlways ==
    (call.fn \in {"_get_json", "_post_json"} /\ call.o1.kind = "resp" /\ call.o1.json # "obj") =>
        call.raised /\ call.exc = "non_json_response"

\* C19: a JSON helper whose response body is no JSON object raises, with
\* 'non_json_response' when the status is below 400 and with the error of the
\* status otherwise; it returns only objects.
C19_NonJsonRaises ==
    call.fn \in {"_get_json", "_post_json"} =>
        /\ (call.o1.kind = "resp" /\ call.o1.json # "obj") =>
              /\ call.raised
              /\ call.exc = IF call.o1.status < 400 THEN "non_json_response" ELSE HttpExcText(call.o1.status)
        /\ ~call.raised => call.o1.json = "obj" /\ call.body = call.o1.body

\* a list answered with status 200 made _post_json raise
C19_Witness ==
    /\ call.fn = "_post_json"
    /\ call.o1 = RespNonJson(HttpOk, "list")
    /\ call.raised
    /\ call.exc = "non_json_response"
    /\ api.last_meta.status = HttpOk

\* the pages of the source that are full, counted from the first
RECURSIVE FullPages(_, _, _)
FullPages(src, page_size, i) ==
    IF i \in SourcePages /\ src[i].count >= page_size THEN 1 + FullPages(src, page_size, i + 1) ELSE 0

\* the rows the source has on its pages 1..n for a page size, in order
RECURSIVE RowsUpTo(_, _, _)
RowsUpTo(src, page_size, n) ==
    IF n = 0 THEN <<>>
    ELSE RowsUpTo(src, page_size, n - 1)
         \o [k \in 1..Min(src[n].count, page_size) |-> (n - 1) * page_size + k]

\* a log of requests without the repetitions of a retry
RECURSIVE Ranges(_)
Ranges(log) ==
    IF Len(log) <= 1 THEN log
    ELSE IF log[Len(log)] = log[Len(log) - 1] THEN Ranges(SubSeq(log, 1, Len(log) - 1))
    ELSE Append(Ranges(SubSeq(log, 1, Len(log) - 1)), log[Len(log)])

\* C20: fetch_all requests consecutive row ranges from row 1 on, none after
\* the first page with fewer than page_size rows, and when that page is among
\* the max_pages first it returns the rows of the pages up to it, in order,
\* whatever list_total_count the pages report.
C20_PagingStopsAtShortPage ==
    (call.fn = "fetch_all" /\ call.done) =>
        LET short == FullPages(call.src, call.page_size, 1) + 1
            ranges == Ranges(call.result.log)
        IN /\ \A i \in 1..Len(ranges) :
                  ranges[i] = <<(i - 1) * call.page_size + 1, i * call.page_size>>
           /\ Len(ranges) <= short
           /\ (~call.result.raised /\ short <= Max(1, call.max_pages)) =>
                  /\ Len(ranges) = short
                  /\ call.result.rows = RowsUpTo(call.src, call.page_size, short)

\* two full pages and a short third one that reports a total of one row
C20_Witness ==
    /\ call.fn = "fetch_all"
    /\ call.done
    /\ call.page_size = 2
    /\ call.max_pages = 3
    /\ call.src[1].count = 2 /\ call.src[2].count = 2 /\ call.src[3].count = 1
    /\ \A i \in SourcePages : call.src[i].total = 1
    /\ call.src[2].kind = "flaky"
    /\ ~call.result.raised
    /\ call.result.rows = <<1, 2, 3, 4, 5>>
    /\ Len(call.result.log) = 4

\* the attempts of a page succeed at last
Answers(page, retries) == page.kind = "ok" \/ (page.kind = "flaky" /\ retries >= 1)

\* the pages fetch_all asks for: up to the first short one, max_pages at most
PagesAsked(c) == 1..Min(FullPages(c.src, Min(c.page_size, PAGE_SIZE_LIMIT), 1) + 1, Max(1, c.max_pages))

\* the pages among them whose attempts all fail
FailingPages(c) == {i \in PagesAsked(c) : ~Answers(c.src[i], c.retries)}

FirstFailing(c) == CHOOSE i \in FailingPages(c) : \A j \in FailingPages(c) : i <= j

\* how often the range of page i was requested
RequestsOf(c, i) ==
    Cardinality({k \in 1..Len(c.result.log) :
                    c.result.log[k] = <<(i - 1) * c.page_size + 1, i * c.page_size>>})

\* C21: a page refused as an auth error is requested once and reaches the
\* caller of fetch_all as an auth error and the cycle of the API mode as
\* 'auth_failed'; any other failing page is requested retries + 1 times and
\* ends fetch_all with a generic error and no rows.
C21_AuthNotRetried ==
    (call.fn \in {"fetch_all", "_async_update_data"} /\ call.done /\ FailingPages(call) # {}) =>
        /\ call.result.raised
        /\ call.result.rows = <<>>
        /\ IF call.src[FirstFailing(call)].kind = "auth"
           THEN /\ RequestsOf(call, FirstFailing(call)) = 1
                /\ call.result.exc = IF call.fn = "fetch_all" THEN "auth" ELSE "auth_failed"
           ELSE /\ RequestsOf(call, FirstFailing(call)) = call.retries + 1
                /\ call.result.exc = "paging_failed"

\* the cycle met a refused key on its second page, after a full first page
C21_Witness ==
    /\ call.fn = "_async_update_data"
    /\ call.done
    /\ call.src[1].kind = "flaky" /\ call.src[1].count = 2
    /\ call.src[2].kind = "auth"
    /\ call.result.exc = "auth_failed"
    /\ Len(call.result.log) = 3

\* C22: adjacent entries of the nearby list are ordered by bikes_total
\* descending and, for equal bikes_total, by distance ascending.
C22_NearbyOrdered ==
    (scn = "nearby" /\ call.done) =>
        \A i \in 1..(Len(co.nearby) - 1) :
            \/ co.nearby[i].bikes_total > co.nearby[i + 1].bikes_total
            \/ /\ co.nearby[i].bikes_total = co.nearby[i + 1].bikes_total
               /\ co.nearby[i].distance_m <= co.nearby[i + 1].distance_m

\* the nearer of two stations with five bikes follows the one with eight
C22_Witness ==
    /\ scn = "nearby"
    /\ call.done
    /\ call.statuses = <<NearA, NearB, NearC>>
    /\ Len(co.nearby) = 3
    /\ co.nearby[1].station_id = "ST-C"
    /\ co.nearby[2].station_id = "ST-B"
    /\ co.nearby[3].station_id = "ST-A"

\* a known station with coordinates meets the configured radius and minimum
Qualifies(st) ==
    /\ st.lat # 0 /\ st.lon # 0
    /\ haversine_m(HomeLat, HomeLon, st.lat, st.lon) <= call.radius_m
    /\ st.bikes_total >= call.min_bikes

\* C23: every station of the nearby list is within the configured radius and
\* has the configured minimum of bikes, and every known station that meets
\* both is a candidate, also for a radius or a minimum of 0.
C23_NearbyWithinRadius ==
    (scn = "nearby" /\ call.done) =>
        /\ \A i \in 1..Len(co.nearby) :
              /\ co.nearby[i].distance_m <= call.radius_m
              /\ co.nearby[i].bikes_total >= call.min_bikes
        /\ \A k \in 1..Len(call.result.known) :
              Qualifies(call.result.known[k]) =>
                  \E i \in 1..Len(call.result.candidates) :
                      call.result.candidates[i].station_id = call.result.known[k].station_id

\* the first n elements of a list
FirstN(list, n) == [i \in 1..(IF n < Len(list) THEN n ELSE Len(list)) |-> list[i]]

RECURSIVE TotalOf(_)
TotalOf(list) == IF list = <<>> THEN 0 ELSE list[1].bikes_total + TotalOf(Tail(list))

NoTotalReported(status) ==
    /\ _to_int(status.parkingBikeTotCnt, 0) <= 0
    /\ _to_int(status.bikes_total, 0) <= 0

\* C25: a Station that _station_from_status builds from a payload reporting
\* no total has bikes_total = bikes_general + bikes_sprout of the record.
C25_TotalIsGeneralPlusSprout ==
    (scn = "station" /\ call.done /\ call.fn = "_station_from_status" /\ NoTotalReported(call.status)) =>
        call.result.bikes_total = call.result.bikes_general + call.result.bikes_sprout

\* C26: every Station built by _station_from_status of either package and by
\* _row_to_station has bikes_total >= 0.
C26_TotalNotNegative ==
    (scn = "station" /\ call.done) => call.result.bikes_total >= 0

\* the favorite stations that have an entity of a platform
WithEntities(platform) ==
    {sid \in FavIds : \E kind \in CreatedKinds(platform) : <<sid, kind>> \in call.entities}

\* C27: once the sync tasks of the updates so far have completed, the favorite
\* stations with sensors, and those with a button, are the stations of the
\* favorites of the current snapshot.
C27_EntitiesFollowFavorites ==
    (scn = "favorites" /\ \A i \in 1..Len(call.syncs) : call.syncs[i].pc = "done") =>
        /\ WithEntities("sensor") = call.favorites
        /\ WithEntities("button") = call.favorites

\* the text holds a password input together with a login-form marker and
\* neither a data marker nor a logout marker
LoginFormOnly(html) ==
    /\ "password" \in html.marks
    /\ "spring" \in html.marks \/ "form" \in html.marks
    /\ "data" \notin html.marks
    /\ "logout" \notin html.marks

\* C28: _looks_like_login answers true only for a text with a password input
\* and a login-form marker and without data and logout markers, and answers
\* false whenever a data marker is present.
C28_LoginOnlyWithForm ==
    (scn = "login_page" /\ call.done) =>
        /\ call.result => LoginFormOnly(call.html)
        /\ "data" \in call.html.marks => ~call.result

\* C28 as amended: the same for every text that is not empty; the empty text
\* is classified as a login page.
C28_LoginOnlyWithFormUnlessEmpty ==
    (scn = "login_page" /\ call.done) =>
        /\ (~call.html.empty /\ call.result) => LoginFormOnly(call.html)
        /\ "data" \in call.html.marks => ~call.result
        /\ call.html.empty => call.result

\* a page with a data marker beside a complete login form is no login page
C28_Witness ==
    /\ scn = "login_page"
    /\ call.done
    /\ call.html.marks = {"data", "password", "spring", "form"}
    /\ ~call.result

\* C29: _normalize_cookie applied to its own result gives that result again.
C29_NormalizeIdempotent ==
    (scn = "normalize" /\ call.done) => call.result.twice = call.result.once

\* the coroutine of a refresh is inside "async with self._refresh_lock"
InBody(t) == task[t].pc \notin {"idle", "wait"}

\* C30: a refresh takes a step after its invocation (its entry into the lock,
\* a read of the snapshot, a fetch, its publication or return) only while no
\* other refresh is between its entry into the lock and its publication or
\* return.
C30_RefreshesSerialized ==
    [][\A t \in TaskIds :
          (task'[t] # task[t] /\ task[t].pc # "idle") => \A u \in TaskIds \ {t} : ~InBody(u)]_vars

\* one refresh waits for the lock while the other is suspended on a fetch
C30_Witness ==
    /\ scn = "serial"
    /\ lock = "r1"
    /\ InBody("r1")
    /\ task["r2"].pc = "wait"

\* C31: a step that assigns another station map or another nearby list to the
\* coordinator is a step of the coroutine that holds _refresh_lock.
C31_MapsWrittenUnderLock ==
    [][(co'.stations_by_id # co.stations_by_id \/ co'.nearby # co.nearby) =>
          (lock # None /\ task'[lock] # task[lock])]_vars

\* C32: an entity of a monitored station is created at most once while the
\* station stays in stations_by_id, the creation at setup included.
C32_StationEntitiesCreatedOnce ==
    scn = "station_entities" =>
        \A e \in AllStationEntities : e[1] # Shared => call.created[e] <= 1

\* C33: when an update arrived before the sync tasks of an earlier one had
\* finished, no entity of a favorite is created while it exists, and once
\* all sync tasks have finished the set each platform keeps is the set of
\* the favorites of the latest snapshot.
C33_OverlappingSyncs ==
    (scn = "favorites" /\ call.overlapped) =>
        /\ call.twice = {}
        /\ (\A i \in 1..Len(call.syncs) : call.syncs[i].pc = "done") =>
               \A platform \in {"sensor", "button"} : call.tracked[platform] = call.favorites

\* C34: _refresh_lock is held only by a refresh inside its body, whichever way
\* the last one left, and a refresh that waits for the lock gets it.
C34_LockReleased ==
    /\ [](scn = "release" => (lock # None => InBody(lock)))
    /\ \A t \in TaskIds : (task[t].pc = "wait") ~> (task[t].pc # "wait")

\* a refresh holds the lock after the other one left it by an exception
C34_Witness ==
    /\ scn = "release"
    /\ task["r1"].outcome = "raised"
    /\ task["r1"].pc = "idle"
    /\ lock = "r2"
    /\ InBody("r2")

\* the Station stands for a configured identifier: it has that station id or
\* that station number
Corresponds(st, raw) == st.station_id = raw \/ st.station_no = raw

FavoriteKeys == {"favorite_status", "validation_status", "last_request"}

\* the station is among the favorites of the snapshot
IsFavorite(snap, sid) ==
    \E i \in 1..Len(snap.favorites) : Strip(StrOrEmpty(snap.favorites[i].station_id)) = sid

\* a step that ends async_refresh_favorite_station
FavoriteEnds(t) == task[t].kind = "favorite" /\ InBody(t) /\ task'[t].pc = "idle"

\* C36: async_refresh_favorite_station(S) changes in the published snapshot
\* only favorite_status[S], validation_status and last_request: every other
\* key and every other favorite_status entry keep their values, and when S is
\* not among the favorites of the snapshot nothing is published.
C36_FavoriteRefreshFrame ==
    [][\A t \in TaskIds :
          FavoriteEnds(t) =>
              /\ \A key \in DOMAIN data \ FavoriteKeys : data'[key] = data[key]
              /\ OtherStatus(data'.favorite_status, task[t].arg) = OtherStatus(data.favorite_status, task[t].arg)
              /\ ~IsFavorite(data, task[t].arg) => data' = data]_vars

\* the same frame for a refresh during which the scheduled cycle published
\* nothing: the snapshot it copied is still the published one
C36_FrameWithoutCycle ==
    [][\A t \in TaskIds :
          (FavoriteEnds(t) /\ (task[t].pc = "fav_realtime" => task[t].snap = data)) =>
              /\ \A key \in DOMAIN data \ FavoriteKeys : data'[key] = data[key]
              /\ OtherStatus(data'.favorite_status, task[t].arg) = OtherStatus(data.favorite_status, task[t].arg)
              /\ ~IsFavorite(data, task[t].arg) => data' = data]_vars

\* a step in which _async_update_data returns a snapshot
CycleReturns == cyc.pc # "idle" /\ cyc'.pc = "idle" /\ cyc'.outcome # "failed"

\* C37: every snapshot returned by a scheduled cycle has validation_status
\* "ok" or "login_page", and its error is None exactly when validation_status
\* is "ok".
C37_ValidationMatchesError ==
    [][CycleReturns =>
          /\ cyc'.ret.validation_status \in {"ok", "login_page"}
          /\ cyc'.ret.error = None <=> cyc'.ret.validation_status = "ok"]_vars

\* the same for a cycle during which no refresh is in its body
C37_WithoutRefresh ==
    [][(CycleReturns /\ \A t \in TaskIds : task[t].pc = "idle" /\ task[t].outcome = "none") =>
          /\ cyc'.ret.validation_status \in {"ok", "login_page"}
          /\ cyc'.ret.error = None <=> cyc'.ret.validation_status = "ok"]_vars

\* C38: fetch_all always terminates, by returning or by raising, after
\* requesting at most max_pages row ranges and at most
\* max_pages * (retries + 1) pages, whatever the source answers.
C38_FetchAllBounded ==
    call.fn = "fetch_all" =>
        /\ ~call.done => ENABLED FetchAllCall
        /\ call.done =>
              /\ Len(Ranges(call.result.log)) <= call.max_pages
              /\ Len(call.result.log) <= call.max_pages * (call.retries + 1)

\* C38, amended: fetch_all always terminates, by returning or by raising,
\* after requesting at most max(1, max_pages) row ranges and at most
\* max(1, max_pages) * (retries + 1) pages, whatever the source answers.
C38_FetchAllBoundedFromOnePage ==
    call.fn = "fetch_all" =>
        /\ ~call.done => ENABLED FetchAllCall
        /\ call.done =>
              /\ Len(Ranges(call.result.log)) <= Max(1, call.max_pages)
              /\ Len(call.result.log) <= Max(1, call.max_pages) * (call.retries + 1)

\* every page of the source is full and fails once: fetch_all returned after
\* max_pages ranges, each requested twice
C38_Witness ==
    /\ call.fn = "fetch_all"
    /\ call.done
    /\ call.page_size = 2
    /\ call.max_pages = 2
    /\ call.retries = DEFAULT_RETRIES
    /\ \A i \in SourcePages : call.src[i].count = 2 /\ call.src[i].kind = "flaky"
    /\ ~call.result.raised
    /\ Len(Ranges(call.result.log)) = 2
    /\ Len(call.result.log) = 4

====
